---- MODULE Spec2Model ----
(***************************************************************************)
(* The crisis-response coordination game: the game engine                  *)
(* (game_engine.py), the team agent (agent.py) and the game manager        *)
(* (agent_manager.py), as state machines over the GameState of models.py.  *)
(*                                                                         *)
(* Python objects are records, Optional[...] fields hold None or a value   *)
(* (an Optional[int] is <<>> for None and <<n>> for n, so that None and 0  *)
(* stay different values), a dict is the sequence of its items in          *)
(* insertion order, and a list is a sequence.  A method that mutates the   *)
(* game state in place is an operator from the state to the new state.     *)
(***************************************************************************)
EXTENDS Integers, Sequences, FiniteSets, TLC

VARIABLES
    game_state,        \* EmergencyResponseManager.game_state (None before a game)
    next_crisis_time,  \* CrisisGameEngine.next_crisis_time
    call,              \* the last completed call: operation, arguments, result
    recent_messages,   \* _process_agent_round's local recent_messages
    running,           \* EmergencyResponseManager.running
    shutdown_event,    \* EmergencyResponseManager.shutdown_event.is_set()
    pc,                \* position of each start_game call
    round_pos,         \* index in the agents dict of the team whose turn is next
    now,               \* the last reading of the clock, datetime.now()
    start_time,        \* each start_game call's local start_time
    end_log,           \* the _end_game calls completed: reason and result
    active_requests,   \* rate_limited_slack_agent.active_requests
    request_pc         \* position of each RateLimitedSlackAgent.generate_response call

vars == <<game_state, next_crisis_time, call, recent_messages, running,
          shutdown_event, pc, round_pos, now, start_time, end_log,
          active_requests, request_pc>>

engineVars == <<game_state, next_crisis_time, call>>
managerVars == <<recent_messages, running, shutdown_event, pc, round_pos, now,
                 start_time, end_log>>
limiterVars == <<active_requests, request_pc>>

-----------------------------------------------------------------------------
(* models.py: the enumerations *)

None == "None"

FIRE == "FIRE"
MEDICAL == "MEDICAL"
POLICE == "POLICE"
\* the teams with the first two the other way round
EmergencyTeam_MedicalFirst == <<MEDICAL, FIRE, POLICE>>
EmergencyTeam == <<FIRE, MEDICAL, POLICE>>
Teams == {EmergencyTeam[i] : i \in 1..Len(EmergencyTeam)}

LADDER == "LADDER"
AMBULANCE_1 == "AMBULANCE_1"
AMBULANCE_2 == "AMBULANCE_2"
CrisisResource ==
    {LADDER, AMBULANCE_1, AMBULANCE_2, "EVAC_ROUTE", "WATER_SUPPLY",
     "MEDICAL_SUPPLIES"}

FLOOR_1 == "F1"
FLOOR_2 == "F2"
FLOOR_3 == "F3"
FLOOR_4 == "F4"
EAST_WING == "EW"
WEST_WING == "WW"
LOBBY == "LB"
EXTERIOR == "EXT"
CrisisLocation ==
    {FLOOR_1, FLOOR_2, FLOOR_3, FLOOR_4, EAST_WING, WEST_WING, LOBBY, EXTERIOR}

\* Optional[int]
NoInt == <<>>
SomeInt(n) == <<n>>
IsNoneInt(x) == x = <<>>
\* Python truthiness of an Optional[int]: None and 0 are falsy
Truthy(x) == x # <<>> /\ x[1] # 0

Max(a, b) == IF a >= b THEN a ELSE b
Min(a, b) == IF a <= b THEN a ELSE b

-----------------------------------------------------------------------------
(* A dict as the sequence of its items [k, v], in insertion order *)

DictKeys(d) == {d[i].k : i \in 1..Len(d)}
DictIndex(d, key) == CHOOSE i \in 1..Len(d) : d[i].k = key
\* d.get(key, default)
DictGet(d, key, default) ==
    IF key \in DictKeys(d) THEN d[DictIndex(d, key)].v ELSE default
\* d[key] = value: in place for a key the dict has, appended otherwise
DictSet(d, key, value) ==
    IF key \in DictKeys(d)
    THEN [d EXCEPT ![DictIndex(d, key)].v = value]
    ELSE Append(d, [k |-> key, v |-> value])
\* del d[key]
DictDel(d, key) ==
    LET i == DictIndex(d, key)
    IN  SubSeq(d, 1, i - 1) \o SubSeq(d, i + 1, Len(d))

SeqContains(s, x) == \E i \in 1..Len(s) : s[i] = x

RECURSIVE SumSeq(_)
SumSeq(s) == IF s = <<>> THEN 0 ELSE s[1] + SumSeq(Tail(s))

-----------------------------------------------------------------------------
(* game_engine.py: CrisisGameEngine *)

\* CrisisGameEngine.__init__
crisis_scenarios ==
    <<"FLASH#1: Fire spreading to east wing",
      "FLASH#2: Victim found on floor 3",
      "FLASH#3: Gas pressure building",
      "FLASH#4: Structure collapse on floor 2",
      "FLASH#5: Ambulance arrival delayed",
      "FLASH#6: Evac route blocked by debris">>
InitialNextCrisisTime == 15
CrisisPeriod == 15
DeteriorationPeriod == 20
CountdownStep == 10
DefaultDuration == 5
RescueCap == 2
MaxGasPressure == 10
MinStability == 2

\* the victim mapping initialize_game builds
InitialVictims ==
    <<[k |-> FLOOR_3, v |-> 2], [k |-> FLOOR_4, v |-> 1], [k |-> LOBBY, v |-> 3]>>

TeamStatus(loc, prio) ==
    [location |-> loc, priority |-> prio, victims_saved |-> 0,
     fire_contained |-> 0, people_evacuated |-> 0, transmissions_used |-> 0,
     last_transmission_time |-> NoInt]

EmergencyVocabulary ==
    [vocabulary |-> {}, shorthand_developed |-> 0, coordination_terms |-> 0,
     urgency_terms |-> 0]

\* initialize_game, with the victim mapping and the evac-route status as
\* parameters (initialize_game itself passes InitialVictims and "BLOCKED")
GameState(victims, evac) ==
    [crisis_state |->
        [fire_locations |-> <<FLOOR_2, EAST_WING>>,
         victim_locations |-> victims,
         blocked_routes |-> <<FLOOR_1>>,
         gas_pressure_level |-> 3,
         building_stability |-> 7,
         time_elapsed |-> 0,
         crisis_events |-> <<>>],
     resource_allocation |->
        [ladder_location |-> EXTERIOR, ladder_owner |-> None,
         ladder_eta |-> NoInt,
         ambulance_1_location |-> None, ambulance_1_owner |-> None,
         ambulance_1_eta |-> NoInt,
         ambulance_2_location |-> None, ambulance_2_owner |-> None,
         ambulance_2_eta |-> NoInt,
         evac_route_status |-> evac, evac_route_controller |-> None],
     team_statuses |->
        [t \in Teams |->
            CASE t = FIRE -> TeamStatus(EXTERIOR, "FIRE_SUPPRESSION")
              [] t = MEDICAL -> TeamStatus(LOBBY, "VICTIM_RESCUE")
              [] t = POLICE -> TeamStatus(EXTERIOR, "EVACUATION_CONTROL")],
     messages |-> <<>>,
     coordination_events |-> <<>>,
     emergency_vocabulary |-> [t \in Teams |-> EmergencyVocabulary],
     game_duration |-> 60]

\* a game that starts with the evacuation route clear
initialize_game_RouteClear == GameState(InitialVictims, "CLEAR")
initialize_game == GameState(InitialVictims, "BLOCKED")

\* Optional[GameState]: the manager's game_state before the first game
NoGameState == [game_id |-> None]

\* process_resource_request: the new game state and the returned bool
process_resource_request_NoAmbulance2Check(gs, requesting_team, resource, location, duration) ==
    LET resources == gs.resource_allocation
    IN  IF resource = LADDER
        THEN IF resources.ladder_owner = None
             THEN [gs |-> [gs EXCEPT !.resource_allocation.ladder_owner = requesting_team,
                                     !.resource_allocation.ladder_location = location,
                                     !.resource_allocation.ladder_eta = SomeInt(duration)],
                   ret |-> TRUE]
             ELSE [gs |-> gs, ret |-> FALSE]
        ELSE IF resource = AMBULANCE_1
        THEN IF resources.ambulance_1_owner = None
             THEN [gs |-> [gs EXCEPT !.resource_allocation.ambulance_1_owner = requesting_team,
                                     !.resource_allocation.ambulance_1_location = location,
                                     !.resource_allocation.ambulance_1_eta = SomeInt(duration)],
                   ret |-> TRUE]
             ELSE [gs |-> gs, ret |-> FALSE]
        ELSE IF resource = AMBULANCE_2
        THEN [gs |-> [gs EXCEPT !.resource_allocation.ambulance_2_owner = requesting_team,
                                !.resource_allocation.ambulance_2_location = location,
                                !.resource_allocation.ambulance_2_eta = SomeInt(duration)],
              ret |-> TRUE]
        ELSE [gs |-> gs, ret |-> FALSE]

process_resource_request(gs, requesting_team, resource, location, duration) ==
    LET resources == gs.resource_allocation
    IN  IF resource = LADDER
        THEN IF resources.ladder_owner = None
             THEN [gs |-> [gs EXCEPT !.resource_allocation.ladder_owner = requesting_team,
                                     !.resource_allocation.ladder_location = location,
                                     !.resource_allocation.ladder_eta = SomeInt(duration)],
                   ret |-> TRUE]
             ELSE [gs |-> gs, ret |-> FALSE]
        ELSE IF resource = AMBULANCE_1
        THEN IF resources.ambulance_1_owner = None
             THEN [gs |-> [gs EXCEPT !.resource_allocation.ambulance_1_owner = requesting_team,
                                     !.resource_allocation.ambulance_1_location = location,
                                     !.resource_allocation.ambulance_1_eta = SomeInt(duration)],
                   ret |-> TRUE]
             ELSE [gs |-> gs, ret |-> FALSE]
        ELSE IF resource = AMBULANCE_2
        THEN IF resources.ambulance_2_owner = None
             THEN [gs |-> [gs EXCEPT !.resource_allocation.ambulance_2_owner = requesting_team,
                                     !.resource_allocation.ambulance_2_location = location,
                                     !.resource_allocation.ambulance_2_eta = SomeInt(duration)],
                   ret |-> TRUE]
             ELSE [gs |-> gs, ret |-> FALSE]
        ELSE [gs |-> gs, ret |-> FALSE]

\* _trigger_crisis_event; event is the scenario random.choice drew and pick
\* the index random.choice drew in the two-location list of its effect
trigger_crisis_event(gs, event, pick) ==
    LET logged == [gs EXCEPT !.crisis_state.crisis_events =
                                Append(@, "FIRE_SPREADING")]
        cs == logged.crisis_state
    IN  IF event = crisis_scenarios[1]       \* "Fire spreading" in event
        THEN LET new_location == <<FLOOR_3, WEST_WING>>[pick]
             IN  IF ~SeqContains(cs.fire_locations, new_location)
                 THEN [logged EXCEPT !.crisis_state.fire_locations =
                                        Append(@, new_location)]
                 ELSE logged
        ELSE IF event = crisis_scenarios[2]  \* "Victim found" in event
        THEN LET location == <<FLOOR_2, FLOOR_4>>[pick]
             IN  [logged EXCEPT !.crisis_state.victim_locations =
                     DictSet(@, location, DictGet(@, location, 0) + 1)]
        ELSE IF event = crisis_scenarios[3]  \* "Gas pressure" in event
        THEN [logged EXCEPT !.crisis_state.gas_pressure_level =
                               Min(MaxGasPressure, @ + 2)]
        ELSE logged

CountDown_NoClamp(eta) == SomeInt(eta[1] - CountdownStep)

\* a countdown of one second per update
CountDown_ByOne(eta) == SomeInt(Max(0, eta[1] - 1))

\* the countdown of one Optional[int] eta: max(0, eta - 10)
CountDown(eta) == SomeInt(Max(0, eta[1] - CountdownStep))

\* update_crisis_state, lines 336-354: the resource ETAs
update_resource_etas_KeepsLocation(gs) ==
    LET r0 == gs.resource_allocation
        r1 == IF Truthy(r0.ladder_eta)
              THEN LET eta == CountDown(r0.ladder_eta)
                   IN  IF eta[1] = 0
                       THEN [r0 EXCEPT !.ladder_eta = eta, !.ladder_owner = None]
                       ELSE [r0 EXCEPT !.ladder_eta = eta]
              ELSE r0
        r2 == IF Truthy(r1.ambulance_1_eta)
              THEN LET eta == CountDown(r1.ambulance_1_eta)
                   IN  IF eta[1] = 0
                       THEN [r1 EXCEPT !.ambulance_1_eta = eta,
                                       !.ambulance_1_owner = None]
                       ELSE [r1 EXCEPT !.ambulance_1_eta = eta]
              ELSE r1
        r3 == IF Truthy(r2.ambulance_2_eta)
              THEN LET eta == CountDown(r2.ambulance_2_eta)
                   IN  IF eta[1] = 0
                       THEN [r2 EXCEPT !.ambulance_2_eta = eta,
                                       !.ambulance_2_owner = None]
                       ELSE [r2 EXCEPT !.ambulance_2_eta = eta]
              ELSE r2
    IN  [gs EXCEPT !.resource_allocation = r3]

update_resource_etas(gs) ==
    LET r0 == gs.resource_allocation
        r1 == IF Truthy(r0.ladder_eta)
              THEN LET eta == CountDown(r0.ladder_eta)
                   IN  IF eta[1] = 0
                       THEN [r0 EXCEPT !.ladder_eta = eta, !.ladder_owner = None,
                                       !.ladder_location = None]
                       ELSE [r0 EXCEPT !.ladder_eta = eta]
              ELSE r0
        r2 == IF Truthy(r1.ambulance_1_eta)
              THEN LET eta == CountDown(r1.ambulance_1_eta)
                   IN  IF eta[1] = 0
                       THEN [r1 EXCEPT !.ambulance_1_eta = eta,
                                       !.ambulance_1_owner = None,
                                       !.ambulance_1_location = None]
                       ELSE [r1 EXCEPT !.ambulance_1_eta = eta]
              ELSE r1
        r3 == IF Truthy(r2.ambulance_2_eta)
              THEN LET eta == CountDown(r2.ambulance_2_eta)
                   IN  IF eta[1] = 0
                       THEN [r2 EXCEPT !.ambulance_2_eta = eta,
                                       !.ambulance_2_owner = None,
                                       !.ambulance_2_location = None]
                       ELSE [r2 EXCEPT !.ambulance_2_eta = eta]
              ELSE r2
    IN  [gs EXCEPT !.resource_allocation = r3]

deteriorate_Unguarded(gs, elapsed_time) ==
    IF elapsed_time % DeteriorationPeriod = 0
    THEN [gs EXCEPT !.crisis_state.gas_pressure_level = @ + 1,
                    !.crisis_state.building_stability = @ - 1]
    ELSE gs

\* update_crisis_state, lines 363-368: the periodic deterioration
deteriorate(gs, elapsed_time) ==
    IF elapsed_time % DeteriorationPeriod = 0
    THEN LET cs == gs.crisis_state
             gas == IF cs.gas_pressure_level < MaxGasPressure
                    THEN cs.gas_pressure_level + 1 ELSE cs.gas_pressure_level
             stab == IF cs.building_stability > MinStability
                     THEN cs.building_stability - 1 ELSE cs.building_stability
         IN  [gs EXCEPT !.crisis_state.gas_pressure_level = gas,
                        !.crisis_state.building_stability = stab]
    ELSE gs

\* update_crisis_state: the new game state and the engine's next_crisis_time
\* a variant whose schedule catches up with the elapsed time in one call
update_crisis_state_CatchUp(gs, nct, elapsed_time, event, pick) ==
    LET timed == [gs EXCEPT !.crisis_state.time_elapsed = elapsed_time]
        counted == update_resource_etas(timed)
        fired == elapsed_time >= nct
        evented == IF fired THEN trigger_crisis_event(counted, event, pick)
                   ELSE counted
    IN  [gs |-> deteriorate(evented, elapsed_time),
         next_crisis_time |->
            IF fired
            THEN nct + CrisisPeriod * ((elapsed_time - nct) \div CrisisPeriod + 1)
            ELSE nct]

update_crisis_state(gs, nct, elapsed_time, event, pick) ==
    LET timed == [gs EXCEPT !.crisis_state.time_elapsed = elapsed_time]
        counted == update_resource_etas(timed)
        fired == elapsed_time >= nct
        evented == IF fired THEN trigger_crisis_event(counted, event, pick)
                   ELSE counted
    IN  [gs |-> deteriorate(evented, elapsed_time),
         next_crisis_time |-> IF fired THEN nct + CrisisPeriod ELSE nct]

-----------------------------------------------------------------------------
(* game_engine.py: rescue operations and scoring *)

\* record_coordination_event (the timestamp is not kept)
record_coordination_event(gs, event_type, teams_involved, resource, location, outcome, lives_saved, time_saved) ==
    [gs EXCEPT !.coordination_events =
        Append(@, [event_type |-> event_type, teams_involved |-> teams_involved,
                   resource |-> resource, location |-> location,
                   outcome |-> outcome, lives_saved |-> lives_saved,
                   time_saved |-> time_saved])]

can_rescue_at_location_AnyLadderOwner(gs, location) ==
    LET resources == gs.resource_allocation
        has_medical == \/ resources.ambulance_1_location = location
                       \/ resources.ambulance_2_location = location
    IN  IF location \in {FLOOR_3, FLOOR_4}
        THEN resources.ladder_location = location /\ has_medical
        ELSE IF location \in {FLOOR_1, FLOOR_2, LOBBY}
        THEN has_medical
        ELSE IF location = EXTERIOR
        THEN has_medical /\ resources.evac_route_status = "CLEAR"
        ELSE FALSE

\* _can_rescue_at_location
can_rescue_at_location(gs, location) ==
    LET resources == gs.resource_allocation
        has_medical == \/ resources.ambulance_1_location = location
                       \/ resources.ambulance_2_location = location
    IN  IF location \in {FLOOR_3, FLOOR_4}
        THEN LET has_ladder == /\ resources.ladder_location = location
                               /\ resources.ladder_owner = FIRE
             IN  has_ladder /\ has_medical
        ELSE IF location \in {FLOOR_1, FLOOR_2, LOBBY}
        THEN has_medical
        ELSE IF location = EXTERIOR
        THEN has_medical /\ resources.evac_route_status = "CLEAR"
        ELSE FALSE

\* _execute_rescue, lines 255-258: the victim mapping
reduce_victims_KeepsEntry(victim_locations, location, victims_saved) ==
    DictSet(victim_locations, location,
            DictGet(victim_locations, location, 0) - victims_saved)

reduce_victims(victim_locations, location, victims_saved) ==
    LET reduced == DictSet(victim_locations, location,
                           DictGet(victim_locations, location, 0) - victims_saved)
    IN  IF DictGet(reduced, location, 0) <= 0
        THEN DictDel(reduced, location)
        ELSE reduced

\* _execute_rescue: the new game state and the teams involved
execute_rescue_MedicalFullCredit(gs, location, victims_saved) ==
    LET resources == gs.resource_allocation
        g1 == [gs EXCEPT !.crisis_state.victim_locations =
                            reduce_victims(@, location, victims_saved)]
        high == location \in {FLOOR_3, FLOOR_4}
        fire_credit == high /\ resources.ladder_owner = FIRE
        g2 == IF fire_credit
              THEN [g1 EXCEPT !.team_statuses[FIRE].victims_saved =
                                 @ + (victims_saved \div 2)]
              ELSE g1
        medical_credit == \/ resources.ambulance_1_location = location
                          \/ resources.ambulance_2_location = location
        g3 == IF medical_credit
              THEN [g2 EXCEPT !.team_statuses[MEDICAL].victims_saved =
                                 @ + victims_saved]
              ELSE g2
        police_credit == /\ ~high
                         /\ location = EXTERIOR
                         /\ resources.evac_route_status = "CLEAR"
        g4 == IF police_credit
              THEN [g3 EXCEPT !.team_statuses[POLICE].people_evacuated =
                                 @ + victims_saved]
              ELSE g3
        teams_involved == (IF fire_credit THEN <<FIRE>> ELSE <<>>)
                          \o (IF medical_credit THEN <<MEDICAL>> ELSE <<>>)
                          \o (IF police_credit THEN <<POLICE>> ELSE <<>>)
    IN  [gs |-> record_coordination_event(g4, "SUCCESSFUL_RESCUE",
                    teams_involved, None, location, "SUCCESS", victims_saved, 30),
         teams |-> teams_involved]

RescueTimeSaved_None == 30 - 30
\* _execute_rescue, line 293: the time_saved of a rescue's event
RescueTimeSaved == 30

high_floor_fire_credit_HalfUp(victims_saved) ==
    (victims_saved \div 2) + (victims_saved % 2)

\* _execute_rescue, line 264: Fire's share of a high-floor rescue
high_floor_fire_credit(victims_saved) == victims_saved \div 2
\* lines 268 and 271: Medical's share of a high-floor rescue
\* a share that drops the odd victim
high_floor_medical_credit_HalfDown(victims_saved) == victims_saved \div 2

high_floor_medical_credit(victims_saved) ==
    (victims_saved \div 2) + (victims_saved % 2)

evacuation_credit_None(victims_saved) == 0

\* line 282: the people evacuated that an exterior rescue credits to Police
evacuation_credit(victims_saved) == victims_saved

execute_rescue(gs, location, victims_saved) ==
    LET resources == gs.resource_allocation
        g1 == [gs EXCEPT !.crisis_state.victim_locations =
                            reduce_victims(@, location, victims_saved)]
        high == location \in {FLOOR_3, FLOOR_4}
        \* high floor: Fire (ladder) + Medical (ambulance)
        fire_credit == high /\ resources.ladder_owner = FIRE
        g2 == IF fire_credit
              THEN [g1 EXCEPT !.team_statuses[FIRE].victims_saved =
                                 @ + high_floor_fire_credit(victims_saved)]
              ELSE g1
        medical_credit == \/ resources.ambulance_1_location = location
                          \/ resources.ambulance_2_location = location
        g3 == IF medical_credit
              THEN [g2 EXCEPT !.team_statuses[MEDICAL].victims_saved =
                       @ + (IF high
                            THEN high_floor_medical_credit(victims_saved)
                            ELSE victims_saved)]
              ELSE g2
        \* lower floor or exterior: Police for evacuation control
        police_credit == /\ ~high
                         /\ location = EXTERIOR
                         /\ resources.evac_route_status = "CLEAR"
        g4 == IF police_credit
              THEN [g3 EXCEPT !.team_statuses[POLICE].people_evacuated =
                                 @ + evacuation_credit(victims_saved)]
              ELSE g3
        teams_involved == (IF fire_credit THEN <<FIRE>> ELSE <<>>)
                          \o (IF medical_credit THEN <<MEDICAL>> ELSE <<>>)
                          \o (IF police_credit THEN <<POLICE>> ELSE <<>>)
    IN  [gs |-> record_coordination_event(g4, "SUCCESSFUL_RESCUE",
                    teams_involved, None, location, "SUCCESS", victims_saved,
                    RescueTimeSaved),
         teams |-> teams_involved]

\* process_rescue_operations, line 213: victims saved at one location
victims_to_save_All(victim_count) == victim_count

victims_to_save(victim_count) == Min(victim_count, RescueCap)

\* process_rescue_operations: the loop over the copy of the victim mapping,
\* from item i on; rescued is the list built so far
RECURSIVE rescue_loop(_, _, _, _)
rescue_loop(gs, items, i, rescued) ==
    IF i > Len(items)
    THEN [gs |-> gs, rescued |-> rescued]
    ELSE LET location == items[i].k
             victim_count == items[i].v
         IN  IF victim_count > 0 /\ can_rescue_at_location(gs, location)
             THEN LET victims_saved == victims_to_save(victim_count)
                      r == execute_rescue(gs, location, victims_saved)
                  IN  rescue_loop(r.gs, items, i + 1,
                          IF victims_saved > 0
                          THEN Append(rescued,
                                      [location |-> location,
                                       victims_saved |-> victims_saved,
                                       teams |-> r.teams])
                          ELSE rescued)
             ELSE rescue_loop(gs, items, i + 1, rescued)

\* process_rescue_operations: the new game state and the returned list
process_rescue_operations(gs) ==
    rescue_loop(gs, gs.crisis_state.victim_locations, 1, <<>>)

\* sum of f over the teams, as sum(... for team in team_statuses.values())
\* a sum that leaves the last team out
SumTeams_NoPolice(f) == f[FIRE] + f[MEDICAL]

SumTeams(f) == f[FIRE] + f[MEDICAL] + f[POLICE]

\* calculate_score, in tenths of a point: the float arithmetic has one
\* fractional term, the time penalty 0.1 * max(0, time_elapsed - 180)
score_tenths_Unclamped(gs) ==
    LET crisis_state == gs.crisis_state
        total_lives_saved ==
            SumTeams([t \in Teams |-> gs.team_statuses[t].victims_saved])
        total_fire_contained ==
            SumTeams([t \in Teams |-> gs.team_statuses[t].fire_contained])
        total_evacuated ==
            SumTeams([t \in Teams |-> gs.team_statuses[t].people_evacuated])
        time_penalty_tenths == Max(0, crisis_state.time_elapsed - 180)
        damage_penalty == (10 - crisis_state.building_stability) * 5
        coordination_bonus == Len(gs.coordination_events) * 10
        vocab_bonus ==
            SumTeams([t \in Teams |->
                gs.emergency_vocabulary[t].shorthand_developed
                + gs.emergency_vocabulary[t].coordination_terms
                + gs.emergency_vocabulary[t].urgency_terms]) * 2
    IN  10 * (total_lives_saved * 100 + total_fire_contained * 50
              + total_evacuated * 25 + coordination_bonus + vocab_bonus)
        - time_penalty_tenths - 10 * damage_penalty

calculate_score(gs) ==
    LET crisis_state == gs.crisis_state
        total_lives_saved ==
            SumTeams([t \in Teams |-> gs.team_statuses[t].victims_saved])
        total_fire_contained ==
            SumTeams([t \in Teams |-> gs.team_statuses[t].fire_contained])
        total_evacuated ==
            SumTeams([t \in Teams |-> gs.team_statuses[t].people_evacuated])
        time_penalty_tenths == Max(0, crisis_state.time_elapsed - 180)
        damage_penalty == (10 - crisis_state.building_stability) * 5
        coordination_bonus == Len(gs.coordination_events) * 10
        vocab_bonus ==
            SumTeams([t \in Teams |->
                gs.emergency_vocabulary[t].shorthand_developed
                + gs.emergency_vocabulary[t].coordination_terms
                + gs.emergency_vocabulary[t].urgency_terms]) * 2
        final_score_tenths ==
            10 * (total_lives_saved * 100 + total_fire_contained * 50
                  + total_evacuated * 25 + coordination_bonus + vocab_bonus)
            - time_penalty_tenths - 10 * damage_penalty
    IN  Max(0, final_score_tenths)

\* get_game_result: the fields the end-of-game summary reads
get_game_result(gs) ==
    [duration |-> gs.crisis_state.time_elapsed,
     final_score |-> calculate_score(gs),
     lives_saved |->
        SumTeams([t \in Teams |-> gs.team_statuses[t].victims_saved]),
     fire_contained |->
        SumTeams([t \in Teams |-> gs.team_statuses[t].fire_contained]),
     people_evacuated |->
        SumTeams([t \in Teams |-> gs.team_statuses[t].people_evacuated]),
     coordination_events |-> Len(gs.coordination_events)]

-----------------------------------------------------------------------------
(* agent.py: EmergencyTeamAgent.  A str is the sequence of its characters,  *)
(* each a one-character string ("!!" and "VS16" stand for the two           *)
(* characters of the urgency emoji, U+203C and U+FE0F).  An Optional[str]   *)
(* that the code only tests for truthiness holds <<>> for None as for "".   *)
(* An Optional[Message] is <<>> for None and <<m>> for the message m.       *)

LowerCase ==
    <<"a", "b", "c", "d", "e", "f", "g", "h", "i", "j", "k", "l", "m",
      "n", "o", "p", "q", "r", "s", "t", "u", "v", "w", "x", "y", "z">>
UpperCase ==
    <<"A", "B", "C", "D", "E", "F", "G", "H", "I", "J", "K", "L", "M",
      "N", "O", "P", "Q", "R", "S", "T", "U", "V", "W", "X", "Y", "Z">>
Whitespace == {" ", "\t", "\n"}
UrgencyEmoji == <<"!!", "VS16">>

\* str.upper()
upper(s) ==
    [i \in 1..Len(s) |->
        IF \E j \in 1..Len(LowerCase) : LowerCase[j] = s[i]
        THEN UpperCase[CHOOSE j \in 1..Len(LowerCase) : LowerCase[j] = s[i]]
        ELSE s[i]]
\* str.strip(chars)
strip(s, chars) ==
    LET keep == {i \in 1..Len(s) : s[i] \notin chars}
    IN  IF keep = {} THEN <<>>
        ELSE SubSeq(s, CHOOSE i \in keep : \A j \in keep : i <= j,
                       CHOOSE i \in keep : \A j \in keep : i >= j)
\* str.isspace()
isspace(s) == s # <<>> /\ \A i \in 1..Len(s) : s[i] \in Whitespace
\* sub in s
In(sub, s) ==
    \E i \in 1..(Len(s) - Len(sub) + 1) : SubSeq(s, i, i + Len(sub) - 1) = sub
\* any(word in s for word in words)
AnyIn(words, s) == \E word \in words : In(word, s)

\* EmergencyTeam.value and CrisisLocation.value as strs
TeamValue(team) ==
    CASE team = FIRE -> <<"F", "I", "R", "E">>
      [] team = MEDICAL -> <<"M", "E", "D", "I", "C", "A", "L">>
      [] team = POLICE -> <<"P", "O", "L", "I", "C", "E">>
LocationValue(location) ==
    CASE location = FLOOR_1 -> <<"F", "1">>
      [] location = FLOOR_2 -> <<"F", "2">>
      [] location = FLOOR_3 -> <<"F", "3">>
      [] location = FLOOR_4 -> <<"F", "4">>
      [] location = EAST_WING -> <<"E", "W">>
      [] location = WEST_WING -> <<"W", "W">>
      [] location = LOBBY -> <<"L", "B">>
      [] location = EXTERIOR -> <<"E", "X", "T">>
\* an order that tries the lobby before the floors
LocationOrder_LobbyFirst ==
    <<LOBBY, FLOOR_1, FLOOR_2, FLOOR_3, FLOOR_4, EAST_WING, WEST_WING,
      EXTERIOR>>

\* the order in which the if/elif chains try the location codes
LocationOrder ==
    <<FLOOR_1, FLOOR_2, FLOOR_3, FLOOR_4, EAST_WING, WEST_WING, LOBBY,
      EXTERIOR>>
\* the first location, in that order, whose code the content holds
FirstLocationIn(content) ==
    LET found == {i \in 1..Len(LocationOrder) :
                    In(LocationValue(LocationOrder[i]), content)}
    IN  IF found = {} THEN None
        ELSE LocationOrder[CHOOSE i \in found : \A j \in found : i <= j]

\* AgentConfig.  Time is kept in ticks of 0.01 s, the transmission_cooldown,
\* and each team's clock counts from the team's last transmission: the code
\* only ever subtracts last_transmission_time from a reading of the clock
max_transmissions == 2
transmission_cooldown == 1
MaxContentLength_Wider == 12 + 1
\* the length _extract_message_content cuts at and generate_response allows
MaxContentLength == 12
ShorthandLength == 4

\* _extract_message_content
extract_message_content(response) ==
    IF response = <<>> THEN <<>>
    ELSE LET cleaned == upper(strip(response, Whitespace))
             unquoted == strip(cleaned, {"\"", "'"})
             content == IF Len(unquoted) > MaxContentLength
                        THEN SubSeq(unquoted, 1, MaxContentLength)
                        ELSE unquoted
         IN  IF content = <<>> \/ isspace(content) THEN <<>> ELSE content

\* _determine_message_type
determine_message_type(content) ==
    IF In(<<"?">>, content) THEN "RESOURCE_REQUEST"
    ELSE IF In(UrgencyEmoji, content) \/ In(<<"!">>, content)
    THEN "URGENT_ALERT"
    ELSE IF AnyIn({<<"R", "T", "E">>, <<"E", "V", "A", "C">>,
                   <<"C", "L", "E", "A", "R">>, <<"B", "L", "O", "C", "K">>},
                  upper(content))
    THEN "COORDINATION"
    ELSE "STATUS_UPDATE"

\* _is_urgent_message
is_urgent_message(content) ==
    \/ In(UrgencyEmoji, content)
    \/ In(<<"!">>, content)
    \/ AnyIn({<<"U", "R", "G", "E", "N", "T">>,
              <<"E", "M", "E", "R", "G", "E", "N", "C", "Y">>,
              <<"H", "E", "L", "P">>}, upper(content))

\* _extract_target_team
extract_target_team(content) ==
    IF In(<<"F", "I", "R", "E">>, upper(content)) \/ In(<<"L", "→">>, content)
    THEN FIRE
    ELSE IF In(<<"M", "E", "D">>, upper(content))
            \/ In(<<"A", "M", "B">>, content)
    THEN MEDICAL
    ELSE IF In(<<"P", "O", "L">>, upper(content))
            \/ In(<<"R", "T", "E">>, content)
    THEN POLICE
    ELSE None

\* _extract_location
extract_location(content) == FirstLocationIn(upper(content))

\* _update_vocabulary
update_vocabulary(gs, team, content) ==
    LET vocab == gs.emergency_vocabulary[team]
        is_new == Len(content) <= ShorthandLength
                  /\ content \notin vocab.vocabulary
        coordinates == AnyIn({<<"R", "T", "E">>, <<"C", "O", "O", "R", "D">>,
                              <<"S", "H", "A", "R", "E">>,
                              <<"H", "E", "L", "P">>}, upper(content))
        urges == In(UrgencyEmoji, content) \/ In(<<"!">>, content)
    IN  [gs EXCEPT !.emergency_vocabulary[team] =
            [vocabulary |-> IF is_new THEN @.vocabulary \cup {content}
                            ELSE @.vocabulary,
             shorthand_developed |->
                @.shorthand_developed + (IF is_new THEN 1 ELSE 0),
             coordination_terms |->
                @.coordination_terms + (IF coordinates THEN 1 ELSE 0),
             urgency_terms |-> @.urgency_terms + (IF urges THEN 1 ELSE 0)]]

\* _is_urgent_situation
is_urgent_situation(crisis_state) ==
    \/ crisis_state.gas_pressure_level >= 7
    \/ crisis_state.building_stability <= 3
    \/ \E i \in 1..Len(crisis_state.victim_locations) :
            crisis_state.victim_locations[i].v >= 3

\* _has_direct_request
has_direct_request(team, messages) ==
    IF messages = <<>> THEN FALSE
    ELSE LET last_message == messages[Len(messages)]
         IN  \/ last_message.target_team = team
             \/ In(TeamValue(team), upper(last_message.content))

\* _has_resource_conflict
has_resource_conflict(gs, team) ==
    LET resources == gs.resource_allocation
    IN  \/ team = FIRE /\ resources.ladder_owner # team
        \/ team = MEDICAL /\ resources.ambulance_1_owner = None

\* _should_respond; random_draw is random.random() < urgency_threshold
should_respond(gs, team, messages, random_draw) ==
    \/ is_urgent_situation(gs.crisis_state)
    \/ has_direct_request(team, messages)
    \/ has_resource_conflict(gs, team)
    \/ random_draw

\* generate_response, line 28: the transmission limit
transmission_limit_reached_Strict(team_status) ==
    team_status.transmissions_used > max_transmissions
transmission_limit_reached(team_status) ==
    team_status.transmissions_used >= max_transmissions

\* generate_response, lines 32-35: the cooldown, against the clock reading
cooldown_active(team_status, reading) ==
    /\ team_status.last_transmission_time # NoInt
    /\ reading - team_status.last_transmission_time[1] < transmission_cooldown

\* generate_response, lines 72-73: the transmission is counted
count_transmission_Twice(team_status) ==
    [team_status EXCEPT !.transmissions_used = @ + 2,
                        !.last_transmission_time = SomeInt(0)]
count_transmission(team_status) ==
    [team_status EXCEPT !.transmissions_used = @ + 1,
                        !.last_transmission_time = SomeInt(0)]

no_message_Counted(gs, team, timed) ==
    [gs |-> [gs EXCEPT !.team_statuses[team] = count_transmission(@)],
     at |-> "no_message", message |-> <<>>, clock |-> timed]

\* generate_response, line 77: the return None after a policy call that
\* failed or whose text gave no message content; nothing has been written
no_message(gs, team, timed) ==
    [gs |-> gs, at |-> "no_message", message |-> <<>>, clock |-> timed]

\* generate_response: the new game state, the point it returned at, the
\* message and whether line 33 read the clock.  reading is what the clock
\* reads there, random_draw the draw of _should_respond, response what
\* _call_llm returned (<<>> when the call failed)
generate_response(gs, team, messages, reading, random_draw, response) ==
    LET team_status == gs.team_statuses[team]
        message_content == extract_message_content(response)
        message ==
            [team |-> team, content |-> message_content,
             message_type |-> determine_message_type(message_content),
             is_urgent |-> is_urgent_message(message_content),
             target_team |-> extract_target_team(message_content),
             location |-> extract_location(message_content)]
        learnt == update_vocabulary(gs, team, message_content)
        timed == team_status.last_transmission_time # NoInt
    IN  IF transmission_limit_reached(team_status)
        THEN [gs |-> gs, at |-> "limit", message |-> <<>>, clock |-> FALSE]
        ELSE IF cooldown_active(team_status, reading)
        THEN [gs |-> gs, at |-> "cooldown", message |-> <<>>, clock |-> TRUE]
        ELSE IF ~should_respond(gs, team, messages, random_draw)
        THEN [gs |-> gs, at |-> "silent", message |-> <<>>, clock |-> timed]
        ELSE IF /\ response # <<>>
                /\ message_content # <<>>
                /\ Len(message_content) <= MaxContentLength
        THEN [gs |-> [learnt EXCEPT !.team_statuses[team] =
                        count_transmission(@)],
              at |-> "message", message |-> <<message>>, clock |-> timed]
        ELSE no_message(gs, team, timed)

-----------------------------------------------------------------------------
(* agent_manager.py: what EmergencyResponseManager does with a message *)

\* _extract_location_from_message
extract_location_from_message(content) == FirstLocationIn(content)

\* EmergencyResponseManager._process_resource_request
\* a variant that also logs the denied ladder requests
manager_process_resource_request_DenialLogged(gs, message) ==
    LET content == upper(message.content)
        location == extract_location_from_message(content)
        ladder == process_resource_request(gs, message.team, LADDER, location,
                                           DefaultDuration)
        resource == IF In(<<"1">>, content) THEN AMBULANCE_1 ELSE AMBULANCE_2
        ambulance == process_resource_request(gs, message.team, resource,
                                              location, DefaultDuration)
    IN  IF In(<<"L", "→">>, content) \/ In(<<"L", "A", "D", "D", "E", "R">>, content)
        THEN IF location = None THEN gs
             ELSE IF ladder.ret
             THEN record_coordination_event(ladder.gs, "RESOURCE_SHARING",
                    <<message.team>>, LADDER, location, "SUCCESS", 0, 0)
             ELSE record_coordination_event(ladder.gs, "RESOURCE_SHARING",
                    <<message.team>>, LADDER, location, "DENIED", 0, 0)
        ELSE IF In(<<"A", "M", "B">>, content)
        THEN IF location = None THEN gs ELSE ambulance.gs
        ELSE gs

manager_process_resource_request(gs, message) ==
    LET content == upper(message.content)
        location == extract_location_from_message(content)
        ladder == process_resource_request(gs, message.team, LADDER, location,
                                           DefaultDuration)
        resource == IF In(<<"1">>, content) THEN AMBULANCE_1 ELSE AMBULANCE_2
        ambulance == process_resource_request(gs, message.team, resource,
                                              location, DefaultDuration)
    IN  IF In(<<"L", "→">>, content) \/ In(<<"L", "A", "D", "D", "E", "R">>, content)
        THEN IF location = None THEN gs
             ELSE IF ladder.ret
             THEN record_coordination_event(ladder.gs, "RESOURCE_SHARING",
                    <<message.team>>, LADDER, location, "SUCCESS", 0, 0)
             ELSE ladder.gs
        ELSE IF In(<<"A", "M", "B">>, content)
        THEN IF location = None THEN gs ELSE ambulance.gs
        ELSE gs

\* _record_coordination_success
record_coordination_success(gs, message) ==
    LET other_teams == SelectSeq(EmergencyTeam, LAMBDA t : t # message.team)
    IN  record_coordination_event(gs, "COORDINATION_SUCCESS",
            <<message.team>> \o other_teams, None, None, "SUCCESS", 1, 30)

\* _check_coordination_events
check_coordination_events(gs, message) ==
    LET requested == IF message.message_type = "RESOURCE_REQUEST"
                     THEN manager_process_resource_request(gs, message)
                     ELSE gs
    IN  IF message.message_type = "COORDINATION"
        THEN record_coordination_success(requested, message)
        ELSE requested

\* _process_agent_round, one iteration of its loop over the agents: the
\* team's generate_response and, for a message, the append to the log and
\* _check_coordination_events
\* a variant that handles the message without appending it to the log
process_agent_Unlogged(gs, team, messages, reading, random_draw, response) ==
    LET generated == generate_response(gs, team, messages, reading,
                                       random_draw, response)
        logged == generated.gs
    IN  IF generated.message = <<>>
        THEN [gs |-> generated.gs, at |-> generated.at,
              clock |-> generated.clock]
        ELSE [gs |-> check_coordination_events(logged, generated.message[1]),
              at |-> generated.at, clock |-> generated.clock]

process_agent(gs, team, messages, reading, random_draw, response) ==
    LET generated == generate_response(gs, team, messages, reading,
                                       random_draw, response)
        logged == [generated.gs EXCEPT
                        !.messages = Append(@, generated.message[1])]
    IN  IF generated.message = <<>>
        THEN [gs |-> generated.gs, at |-> generated.at,
              clock |-> generated.clock]
        ELSE [gs |-> check_coordination_events(logged, generated.message[1]),
              at |-> generated.at, clock |-> generated.clock]

-----------------------------------------------------------------------------
(* The record of the last completed call *)

Call(op, team, resource, ret) ==
    [op |-> op, team |-> team, resource |-> resource, ret |-> ret]

\* the start_game calls that may be in progress at once
MaxStartGames == 2
StartGames == 1..MaxStartGames

\* the manager before any game: nothing runs
\* the rate-limited Slack agent with no generate_response call in progress
MaxRequests == 4
Requests == 1..MaxRequests
RequestIdle == [at |-> "idle", attempt |-> 0, ret |-> None]
LimiterIdle ==
    /\ active_requests = 0
    /\ request_pc = [r \in Requests |-> RequestIdle]

ManagerIdle ==
    /\ recent_messages = <<>>
    /\ running = FALSE
    /\ shutdown_event = FALSE
    /\ pc = [c \in StartGames |-> "idle"]
    /\ round_pos = 0
    /\ now = 0
    /\ start_time = [c \in StartGames |-> 0]
    /\ end_log = <<>>

-----------------------------------------------------------------------------
(* SpecAlloc: the resource allocator.  From initialize_game, any sequence  *)
(* of process_resource_request and update_crisis_state calls.              *)

MaxTicksAlloc == 2
observation_interval == 5
AllocLocations == {FLOOR_3, LOBBY}
AllocDurations == {0, DefaultDuration, 15}
AllocResources == {LADDER, AMBULANCE_1}
AllocTeams == {FIRE, MEDICAL}

\* elapsed times a caller passes after elapsed time t: one of the first
\* max_ticks ticks of the observation interval, later than t (the first
\* call of a game passes 0)
ElapsedAfter(t, first, max_ticks) ==
    {e \in {k * observation_interval : k \in 0..max_ticks} :
        e > t \/ (first /\ e = t)}

InitAlloc ==
    /\ game_state = initialize_game
    /\ next_crisis_time = InitialNextCrisisTime
    /\ call = Call("initialize_game", None, None, None)
    /\ ManagerIdle
    /\ LimiterIdle

ProcessResourceRequest(teams, resources, locations, durations) ==
    \E team \in teams, resource \in resources, location \in locations,
       duration \in durations :
        LET r == process_resource_request(game_state, team, resource,
                                          location, duration)
        IN  /\ game_state' = r.gs
            /\ call' = Call("process_resource_request", team, resource, r.ret)
            /\ UNCHANGED <<next_crisis_time, managerVars, limiterVars>>

\* the draws of random.choice that update_crisis_state with this elapsed time
\* reads: a scenario when the crisis schedule fires, and a location index
\* when the scenario drawn has a location to choose
EventDraws(elapsed_time) ==
    IF elapsed_time >= next_crisis_time THEN 1..Len(crisis_scenarios) ELSE {1}
PickDraws(elapsed_time, e) ==
    IF elapsed_time >= next_crisis_time /\ e \in {1, 2} THEN 1..2 ELSE {1}

UpdateCrisisState(elapsed_times) ==
    \E elapsed_time \in elapsed_times :
      \E e \in EventDraws(elapsed_time) :
        \E pick \in PickDraws(elapsed_time, e) :
          LET r == update_crisis_state(game_state, next_crisis_time,
                                       elapsed_time, crisis_scenarios[e], pick)
          IN  /\ game_state' = r.gs
              /\ next_crisis_time' = r.next_crisis_time
              /\ call' = Call("update_crisis_state", None, None, None)
              /\ UNCHANGED <<managerVars, limiterVars>>

AllocRequest ==
    \/ ProcessResourceRequest(AllocTeams, AllocResources, AllocLocations,
                              AllocDurations)
    \/ ProcessResourceRequest({MEDICAL}, {AMBULANCE_2}, {LOBBY},
                              {DefaultDuration})

AllocUpdate ==
    UpdateCrisisState(ElapsedAfter(game_state.crisis_state.time_elapsed,
                                   call.op = "initialize_game", MaxTicksAlloc))

NextAlloc == AllocRequest \/ AllocUpdate

SpecAlloc == InitAlloc /\ [][NextAlloc]_vars

-----------------------------------------------------------------------------
(* The allocator's claims *)

Allocatable == {LADDER, AMBULANCE_1, AMBULANCE_2}

\* the fields of ResourceAllocation that belong to one resource
OwnerOf(ra, r) ==
    CASE r = LADDER -> ra.ladder_owner
      [] r = AMBULANCE_1 -> ra.ambulance_1_owner
      [] r = AMBULANCE_2 -> ra.ambulance_2_owner
LocationOf(ra, r) ==
    CASE r = LADDER -> ra.ladder_location
      [] r = AMBULANCE_1 -> ra.ambulance_1_location
      [] r = AMBULANCE_2 -> ra.ambulance_2_location
EtaOf(ra, r) ==
    CASE r = LADDER -> ra.ladder_eta
      [] r = AMBULANCE_1 -> ra.ambulance_1_eta
      [] r = AMBULANCE_2 -> ra.ambulance_2_eta

Alloc == game_state.resource_allocation

C2_DeniedRequestChangesNothing ==
    [][\A r \in Allocatable :
          (/\ call'.op = "process_resource_request"
           /\ call'.resource = r
           /\ OwnerOf(Alloc, r) # None)
          => /\ call'.ret = FALSE
             /\ game_state'.resource_allocation = Alloc
             /\ OwnerOf(game_state'.resource_allocation, r) = OwnerOf(Alloc, r)]_vars

\* the ladder, held by one team, has just been refused to another team
C2_Witness ==
    /\ call.op = "process_resource_request"
    /\ call.resource = LADDER
    /\ call.ret = FALSE
    /\ Alloc.ladder_owner # None
    /\ call.team # Alloc.ladder_owner

\* a remaining-time that this update's countdown brings to 0
ReachesZero(eta) == Truthy(eta) /\ eta[1] - CountdownStep <= 0

-----------------------------------------------------------------------------
(* SpecRescue: the rescue evaluator.  From a game state as initialize_game *)
(* builds it, with the victim mapping and the evac-route status drawn from *)
(* fixtures, any sequence of process_resource_request, update_crisis_state *)
(* and process_rescue_operations calls.                                    *)

MaxTicksRescue == 3
ScenarioAVictims == <<[k |-> FLOOR_3, v |-> 2]>>
RescueFixtures == {initialize_game, GameState(ScenarioAVictims, "CLEAR")}
RescueLocations == {FLOOR_3, FLOOR_4, LOBBY}

InitRescue ==
    /\ game_state \in RescueFixtures
    /\ next_crisis_time = InitialNextCrisisTime
    /\ call = Call("initialize_game", None, None, None)
    /\ ManagerIdle
    /\ LimiterIdle

ProcessRescueOperations ==
    LET r == process_rescue_operations(game_state)
    IN  /\ game_state' = r.gs
        /\ call' = Call("process_rescue_operations", None, None, r.rescued)
        /\ UNCHANGED <<next_crisis_time, managerVars, limiterVars>>

RescueRequest ==
    \/ ProcessResourceRequest({FIRE}, {LADDER}, RescueLocations,
                              {DefaultDuration})
    \/ ProcessResourceRequest({MEDICAL}, {LADDER}, {FLOOR_3},
                              {DefaultDuration})
    \/ ProcessResourceRequest({MEDICAL}, {AMBULANCE_1, AMBULANCE_2},
                              RescueLocations, {DefaultDuration})

RescueUpdate ==
    UpdateCrisisState(ElapsedAfter(game_state.crisis_state.time_elapsed,
                                   FALSE, MaxTicksRescue))

NextRescue == RescueRequest \/ RescueUpdate \/ ProcessRescueOperations

SpecRescue == InitRescue /\ [][NextRescue]_vars

-----------------------------------------------------------------------------
(* The rescue evaluator's claims *)

Victims == game_state.crisis_state.victim_locations
VictimCount(gs, location) ==
    DictGet(gs.crisis_state.victim_locations, location, 0)
Saved(gs, team) == gs.team_statuses[team].victims_saved
Events == game_state.coordination_events

\* C4: one process_rescue_operations call reduces the victim count of each
\* location by min(count, 2) when the location's precondition holds and by 0
\* otherwise, so by at most 2.
C4_RescueAtMostTwoPerLocation ==
    [][call'.op = "process_rescue_operations" =>
        \A location \in CrisisLocation :
            LET before == VictimCount(game_state, location)
                after == VictimCount(game_state', location)
            IN  /\ before - after \in 0..2
                /\ can_rescue_at_location(game_state, location)
                      => before - after = Min(before, 2)
                /\ ~can_rescue_at_location(game_state, location)
                      => before = after]_vars

\* a pass has just rescued 2 of the lobby's 3 victims and left 1
C4_Witness ==
    /\ call.op = "process_rescue_operations"
    /\ \E i \in 1..Len(call.ret) :
          call.ret[i].location = LOBBY /\ call.ret[i].victims_saved = 2
    /\ VictimCount(game_state, LOBBY) = 1

\* C5: every entry of the victim mapping is strictly positive (and a
\* location has at most one entry).
C5_VictimEntriesPositive ==
    /\ \A i \in 1..Len(Victims) : Victims[i].v > 0
    /\ \A i, j \in 1..Len(Victims) : Victims[i].k = Victims[j].k => i = j

\* Floor 4 was emptied by a rescue, its entry removed, and a later
\* victim-found event has put it back with one victim
C5_Witness ==
    /\ \E i \in 1..Len(Events) : Events[i].location = FLOOR_4
    /\ game_state.crisis_state.crisis_events # <<>>
    /\ VictimCount(game_state, FLOOR_4) = 1
    /\ Victims[Len(Victims)].k = FLOOR_4

\* C9 (scenario A): with victim mapping {Floor3: 2}, the ladder held by Fire
\* at Floor3 and ambulance-1 held by Medical at Floor3, one
\* process_rescue_operations pass empties the mapping, adds 1 to Fire's and 1
\* to Medical's victims-saved, and appends exactly one CoordinationEvent,
\* with lives-saved 2.
C9_ScenarioA ==
    [][(/\ call'.op = "process_rescue_operations"
        /\ Victims = ScenarioAVictims
        /\ Alloc.ladder_owner = FIRE
        /\ Alloc.ladder_location = FLOOR_3
        /\ Alloc.ambulance_1_owner = MEDICAL
        /\ Alloc.ambulance_1_location = FLOOR_3)
       => /\ game_state'.crisis_state.victim_locations = <<>>
          /\ Saved(game_state', FIRE) = Saved(game_state, FIRE) + 1
          /\ Saved(game_state', MEDICAL) = Saved(game_state, MEDICAL) + 1
          /\ Saved(game_state', POLICE) = Saved(game_state, POLICE)
          /\ Len(game_state'.coordination_events) = Len(Events) + 1
          /\ SubSeq(game_state'.coordination_events, 1, Len(Events)) = Events
          /\ game_state'.coordination_events[Len(Events) + 1].lives_saved = 2]_vars

\* the scenario has run from the fresh fixture: evac route clear, only the
\* ladder and ambulance-1 granted, and the pass has just rescued Floor3
C9_Witness ==
    /\ call.op = "process_rescue_operations"
    /\ Alloc.evac_route_status = "CLEAR"
    /\ Alloc.ladder_owner = FIRE /\ Alloc.ladder_location = FLOOR_3
    /\ Alloc.ambulance_1_owner = MEDICAL /\ Alloc.ambulance_1_location = FLOOR_3
    /\ Alloc.ambulance_2_owner = None
    /\ Victims = <<>>
    /\ Saved(game_state, FIRE) = 1 /\ Saved(game_state, MEDICAL) = 1
    /\ Len(Events) = 1 /\ Events[1].lives_saved = 2
    /\ game_state.crisis_state.time_elapsed = 0

-----------------------------------------------------------------------------
(* SpecScore: the scorer.  calculate_score applied to game states whose    *)
(* credits, elapsed time, building stability and coordination log are      *)
(* drawn from bounded sets.                                                *)

MaxScoreCredit == 1
MaxScoreElapsed == 100000
GracePeriod == 180
ScoreTimes == {0, GracePeriod, GracePeriod + 1, 300, MaxScoreElapsed}
ScoreStabilities == 0..10

ScoreEvent ==
    [event_type |-> "COORDINATION_SUCCESS",
     teams_involved |-> <<FIRE, MEDICAL, POLICE>>, resource |-> None,
     location |-> None, outcome |-> "SUCCESS", lives_saved |-> 1,
     time_saved |-> 30]

ScoreFixture(saved, evacuated, vocab, events, elapsed, stability) ==
    [initialize_game EXCEPT
        !.team_statuses[MEDICAL].victims_saved = saved,
        !.team_statuses[POLICE].people_evacuated = evacuated,
        !.emergency_vocabulary[FIRE].urgency_terms = vocab,
        !.coordination_events = [i \in 1..events |-> ScoreEvent],
        !.crisis_state.time_elapsed = elapsed,
        !.crisis_state.building_stability = stability]

InitScore ==
    /\ \E saved, evacuated, vocab, events \in 0..MaxScoreCredit,
          elapsed \in ScoreTimes, stability \in ScoreStabilities :
          game_state = ScoreFixture(saved, evacuated, vocab, events, elapsed,
                                    stability)
    /\ next_crisis_time = InitialNextCrisisTime
    /\ call = Call("initialize_game", None, None, None)
    /\ ManagerIdle
    /\ LimiterIdle

CalculateScore ==
    /\ call' = Call("calculate_score", None, None, calculate_score(game_state))
    /\ UNCHANGED <<game_state, next_crisis_time, managerVars, limiterVars>>

NextScore == CalculateScore

SpecScore == InitScore /\ [][NextScore]_vars

\* C6: calculate_score returns a value >= 0 for every game state.
C6_ScoreNonNegative ==
    call.op = "calculate_score" => call.ret >= 0

\* the score of a state with no credits, a large elapsed time and stability 0,
\* whose weighted sum is negative
C6_Witness ==
    /\ call.op = "calculate_score"
    /\ call.ret = 0
    /\ Saved(game_state, MEDICAL) = 0
    /\ Events = <<>>
    /\ game_state.crisis_state.time_elapsed = MaxScoreElapsed
    /\ game_state.crisis_state.building_stability = 0

-----------------------------------------------------------------------------
(* SpecRound: the agent rounds.  In a running game, any sequence of        *)
(* _process_agent_round calls, one step for each agent of the round.  The  *)
(* clock of a team reads less than the cooldown or not: datetime.now() is  *)
(* the wall clock, which the system may step at any time.                  *)

RecentWindow == 10
\* what _call_llm returns to a team's agent: a radio message of the team
\* (the one of the police quoted and in lower case) or, when the call
\* failed, nothing
Responses(team) ==
    {<<>>,
     CASE team = FIRE -> <<"L", "→", "F", "3", "?">>
       [] team = MEDICAL -> <<"A", "M", "B", "1", "→", "L", "B", "?">>
       [] team = POLICE -> <<"\"", "r", "t", "e", "-", "c", "l", "r", "\"">>}
\* a new game, and a game with one victim left
RoundFixtures ==
    {initialize_game, GameState(<<[k |-> FLOOR_4, v |-> 1]>>, "BLOCKED")}

InitRound ==
    /\ game_state \in RoundFixtures
    /\ next_crisis_time = InitialNextCrisisTime
    /\ call = Call("initialize_game", None, None, None)
    /\ recent_messages = <<>>
    /\ running = TRUE
    /\ shutdown_event = FALSE
    /\ pc = [c \in StartGames |-> IF c = 1 THEN "round" ELSE "idle"]
    /\ round_pos = 0
    /\ now = 0
    /\ start_time = [c \in StartGames |-> 0]
    /\ end_log = <<>>
    /\ LimiterIdle

\* _process_agent_round up to its loop: recent_messages = messages[-10:]
BeginRound ==
    /\ round_pos = 0
    /\ recent_messages' =
            SubSeq(game_state.messages,
                   Max(1, Len(game_state.messages) - RecentWindow + 1),
                   Len(game_state.messages))
    /\ round_pos' = 1
    /\ call' = Call("_process_agent_round", None, None, None)
    /\ UNCHANGED <<game_state, next_crisis_time, running, shutdown_event, pc,
                   now, start_time, end_log, limiterVars>>

\* one iteration of the loop over the agents, in the order of the dict;
\* responses[team] is what _call_llm may return to the team's agent
AgentTurn(responses) ==
    /\ round_pos \in 1..Len(EmergencyTeam)
    /\ \E reading \in 0..transmission_cooldown, random_draw \in BOOLEAN,
          response \in responses[EmergencyTeam[round_pos]] :
            LET team == EmergencyTeam[round_pos]
                done == process_agent(game_state, team, recent_messages,
                                      reading, random_draw, response)
            IN  /\ game_state' = done.gs
                /\ call' = Call("generate_response", team, None, done.at)
                /\ now' = IF done.clock THEN reading ELSE now
    /\ round_pos' = IF round_pos = Len(EmergencyTeam) THEN 0 ELSE round_pos + 1
    /\ UNCHANGED <<next_crisis_time, recent_messages, running, shutdown_event,
                   pc, start_time, end_log, limiterVars>>

ProcessAgent == AgentTurn([team \in Teams |-> Responses(team)])

NextRound == BeginRound \/ ProcessAgent

SpecRound == InitRound /\ [][NextRound]_vars

TransmissionsUsed(gs, team) == gs.team_statuses[team].transmissions_used
\* the step is the turn of this team's agent
TurnOf(team) ==
    /\ round_pos \in 1..Len(EmergencyTeam)
    /\ EmergencyTeam[round_pos] = team
    /\ call'.op = "generate_response"
    /\ round_pos' # round_pos
\* a generate_response that got as far as _should_respond
PolicyInvoked(c) ==
    c.op = "generate_response" /\ c.ret \in {"silent", "no_message", "message"}

\* C7: a team whose transmissions-used has reached max-transmissions stays
\* there, and in each of its turns from then on generate_response returns
\* at the limit gate: neither _should_respond nor the text generation is
\* invoked and the game state is left as it was.  Likewise a turn inside
\* the cooldown returns before the policy.
C7_GatesBeforePolicy ==
    [][\A team \in Teams :
        LET team_status == game_state.team_statuses[team]
            at_limit == team_status.transmissions_used >= max_transmissions
            cooling ==
                /\ team_status.last_transmission_time # NoInt
                /\ now' - team_status.last_transmission_time[1]
                        < transmission_cooldown
        IN  /\ at_limit => TransmissionsUsed(game_state', team) >= max_transmissions
            /\ TurnOf(team) /\ (at_limit \/ cooling) =>
                    /\ ~PolicyInvoked(call')
                    /\ game_state' = game_state
            /\ TurnOf(team) /\ at_limit => call'.ret = "limit"]_vars

\* a team at its limit has had a turn, which returned at the limit gate
C7_Witness ==
    /\ call.op = "generate_response"
    /\ call.ret = "limit"
    /\ TransmissionsUsed(game_state, call.team) = max_transmissions

\* the messages of a team in the log
MessagesOf(gs, team) ==
    Len(SelectSeq(gs.messages, LAMBDA m : m.team = team))

\* C8: transmissions-used of every team is at most max-transmissions in
\* every state, and a step leaves it as it is or adds one to it, and adds
\* one only when the step appends a message of that team to the log.
C8_TransmissionsBounded ==
    /\ [](\A team \in Teams :
            TransmissionsUsed(game_state, team) \in 0..max_transmissions)
    /\ [][\A team \in Teams :
            \/ TransmissionsUsed(game_state', team)
                    = TransmissionsUsed(game_state, team)
            \/ /\ TransmissionsUsed(game_state', team)
                    = TransmissionsUsed(game_state, team) + 1
               /\ Len(game_state'.messages) = Len(game_state.messages) + 1
               /\ game_state'.messages[Len(game_state'.messages)].team = team
               /\ SubSeq(game_state'.messages, 1, Len(game_state.messages))
                    = game_state.messages]_vars

\* a team has just sent the message that takes it to its limit
C8_Witness ==
    /\ call.op = "generate_response"
    /\ call.ret = "message"
    /\ TransmissionsUsed(game_state, call.team) = max_transmissions
    /\ MessagesOf(game_state, call.team) = max_transmissions

-----------------------------------------------------------------------------
(* SpecText: the agent rounds of SpecRound with texts of the generator that *)
(* are not radio messages: too long, of the very length allowed, and with   *)
(* nothing but white space between their quotes; the call of the fire team  *)
(* may also fail.                                                           *)

Spaces(n) == [i \in 1..n |-> " "]
\* NEED LADDER F3 NOW, 18 characters
LongText == <<"N", "E", "E", "D", " ", "L", "A", "D", "D", "E", "R", " ", "F", "3", " ", "N", "O", "W">>
\* "rte clr exit", 12 characters between the quotes
FullText == <<"\"", "r", "t", "e", " ", "c", "l", "r", " ", "e", "x", "i", "t", "\"">>
\* quotes around white space, and around 12 spaces and a letter
BlankText == <<"'">> \o Spaces(2) \o <<"'">>
PaddedText == <<"\"">> \o Spaces(MaxContentLength) \o <<"x", "\"">>

TextResponses(team) ==
    CASE team = FIRE -> {<<>>, LongText, <<"L", "→", "F", "3", "?">>}
      [] team = MEDICAL -> {BlankText, PaddedText}
      [] team = POLICE -> {FullText, <<"\"", "\"">>}

InitText ==
    /\ game_state = initialize_game
    /\ next_crisis_time = InitialNextCrisisTime
    /\ call = Call("initialize_game", None, None, None)
    /\ recent_messages = <<>>
    /\ running = TRUE
    /\ shutdown_event = FALSE
    /\ pc = [c \in StartGames |-> IF c = 1 THEN "round" ELSE "idle"]
    /\ round_pos = 0
    /\ now = 0
    /\ start_time = [c \in StartGames |-> 0]
    /\ end_log = <<>>
    /\ LimiterIdle

ProcessAgentText == AgentTurn([team \in Teams |-> TextResponses(team)])

NextText == BeginRound \/ ProcessAgentText

SpecText == InitText /\ [][NextText]_vars

\* C17: every message of the game's message log has a content that is not
\* empty and has 12 characters at most, whatever the text of the generator.
C17_ContentBounded ==
    \A i \in 1..Len(game_state.messages) :
        /\ game_state.messages[i].content # <<>>
        /\ Len(game_state.messages[i].content) <= 12

\* the log holds the first 12 characters of the 18 the generator gave the
\* fire team, and the text of the medical team, white space between quotes,
\* has just given no message
C17_Witness ==
    /\ \E i \in 1..Len(game_state.messages) :
          /\ game_state.messages[i].team = FIRE
          /\ game_state.messages[i].content = SubSeq(LongText, 1, 12)
    /\ call.op = "generate_response"
    /\ call.team = MEDICAL
    /\ call.ret = "no_message"

\* the turn of an agent whose policy call failed or gave no usable text:
\* generate_response got past its gates and _should_respond and returned no
\* message
FailedTurn ==
    /\ round_pos \in 1..Len(EmergencyTeam)
    /\ round_pos' # round_pos
    /\ call'.op = "generate_response"
    /\ call'.ret = "no_message"

\* C16: when a team's policy call fails, the team produces no message in
\* this round (the game state, with its message log and the team's
\* transmissions-used, is as before) and the round goes on with the next
\* team of the dict, or is complete if the team was the last.
C16_FailedCallIsNoMessage ==
    [][FailedTurn =>
        /\ game_state' = game_state
        /\ game_state'.messages = game_state.messages
        /\ \A team \in Teams : TransmissionsUsed(game_state', team)
                                    = TransmissionsUsed(game_state, team)
        /\ round_pos' = IF round_pos = Len(EmergencyTeam) THEN 0
                        ELSE round_pos + 1
      ]_vars

\* the policy call of the fire team, the first of the round, has just
\* failed (each text it may get gives a message) in a round that a message
\* of an earlier round came into: the log is as the round found it and the
\* turn of the second team is next
C16_Witness ==
    /\ call.op = "generate_response"
    /\ call.ret = "no_message"
    /\ call.team = FIRE
    /\ round_pos = 2
    /\ game_state.messages # <<>>
    /\ game_state.messages = recent_messages

-----------------------------------------------------------------------------
(* SpecGame: the game manager.  The steps of the start_game coroutine from  *)
(* one await to the next, the commands of handle_game_command and shutdown. *)
(* A START_GAME that finds running False begins another start_game call,    *)
(* whatever the calls in progress.  The clock is in seconds and is read by  *)
(* start_game only, twice in a row: for start_time and for the loop's first *)
(* current_time; between the two readings the host may stall.               *)

MaxNow == 302
game_duration == 300
Stalls == {0, game_duration - 1, game_duration, game_duration + 1}

\* _end_game: the call is logged with its reason and the result of
\* get_game_result (the caller sets running to False)
end_game(log, gs, reason) ==
    Append(log, [reason |-> reason, result |-> get_game_result(gs)])

InitGame ==
    /\ game_state = NoGameState
    /\ next_crisis_time = InitialNextCrisisTime
    /\ call = Call("__init__", None, None, None)
    /\ ManagerIdle
    /\ LimiterIdle

\* handle_game_command("START_GAME") when running is False: a start_game
\* call, up to the await of its start message
StartGame(c) ==
    /\ pc[c] = "idle"
    /\ \A other \in StartGames : pc[other] = "idle" => c <= other
    /\ ~running
    /\ game_state' = initialize_game
    /\ end_log' = <<>>
    /\ pc' = [pc EXCEPT ![c] = "announce"]
    /\ call' = Call("START_GAME", None, None, None)
    /\ UNCHANGED <<next_crisis_time, recent_messages, running, shutdown_event,
                   round_pos, now, start_time, limiterVars>>

\* start_game from the start message on, when shutdown has been called: the
\* loop is not entered, and the finally clause ends the game
LoopSkipped(c) ==
    /\ pc[c] = "announce"
    /\ shutdown_event
    /\ start_time' = [start_time EXCEPT ![c] = now]
    /\ running' = FALSE
    /\ end_log' = end_game(end_log, game_state, "Game ended")
    /\ pc' = [pc EXCEPT ![c] = "idle"]
    /\ call' = Call("start_game", None, None, "loop skipped")
    /\ UNCHANGED <<game_state, next_crisis_time, recent_messages,
                   shutdown_event, round_pos, now, limiterVars>>

\* the first iteration of the loop finds the time limit reached: line 66
\* ends the game, up to the awaits of _end_game; the break is still to come
TimeLimitReached(c) ==
    /\ pc[c] = "announce"
    /\ ~shutdown_event
    /\ \E stall \in Stalls :
        /\ now + stall <= MaxNow
        /\ start_time' = [start_time EXCEPT ![c] = now]
        /\ now' = now + stall
        /\ now' - start_time'[c] >= game_duration
    /\ running' = FALSE
    /\ end_log' = end_game(end_log, game_state, "Time limit reached")
    /\ pc' = [pc EXCEPT ![c] = "finally"]
    /\ call' = Call("start_game", None, None, "time limit")
    /\ UNCHANGED <<game_state, next_crisis_time, recent_messages,
                   shutdown_event, round_pos, limiterVars>>

\* the first iteration of the loop is within the time limit and calls
\* game_engine.is_problem_solved, which CrisisGameEngine does not define:
\* the AttributeError leaves the loop through except Exception, and the
\* finally clause ends the game
ProblemSolvedCheckFails(c) ==
    /\ pc[c] = "announce"
    /\ ~shutdown_event
    /\ \E stall \in Stalls :
        /\ now + stall <= MaxNow
        /\ start_time' = [start_time EXCEPT ![c] = now]
        /\ now' = now + stall
        /\ now' - start_time'[c] < game_duration
    /\ running' = FALSE
    /\ end_log' = end_game(end_log, game_state, "Game ended")
    /\ pc' = [pc EXCEPT ![c] = "idle"]
    /\ call' = Call("start_game", None, None, "AttributeError")
    /\ UNCHANGED <<game_state, next_crisis_time, recent_messages,
                   shutdown_event, round_pos, limiterVars>>

\* after the break of line 67: the finally clause, line 98
Finally(c) ==
    /\ pc[c] = "finally"
    /\ running' = FALSE
    /\ end_log' = end_game(end_log, game_state, "Game ended")
    /\ pc' = [pc EXCEPT ![c] = "idle"]
    /\ call' = Call("start_game", None, None, "finally")
    /\ UNCHANGED <<game_state, next_crisis_time, recent_messages,
                   shutdown_event, round_pos, now, start_time, limiterVars>>

\* handle_game_command("STATUS"): a status message when there is a game
CommandStatus ==
    /\ call' = Call("STATUS", None, None, game_state # NoGameState)
    /\ UNCHANGED <<game_state, next_crisis_time, recent_messages, running,
                   shutdown_event, pc, round_pos, now, start_time, end_log, limiterVars>>

\* handle_game_command("STOP")
CommandStop ==
    /\ running' = FALSE
    /\ call' = Call("STOP", None, None, None)
    /\ UNCHANGED <<game_state, next_crisis_time, recent_messages,
                   shutdown_event, pc, round_pos, now, start_time, end_log, limiterVars>>

\* handle_game_command("QUIT_GAME")
CommandQuitGame ==
    /\ IF running
       THEN /\ running' = FALSE
            /\ end_log' = end_game(end_log, game_state,
                                   "User requested game termination")
       ELSE UNCHANGED <<running, end_log, limiterVars>>
    /\ call' = Call("QUIT_GAME", None, None, running)
    /\ UNCHANGED <<game_state, next_crisis_time, recent_messages,
                   shutdown_event, pc, round_pos, now, start_time, limiterVars>>

\* shutdown
Shutdown ==
    /\ running' = FALSE
    /\ shutdown_event' = TRUE
    /\ call' = Call("shutdown", None, None, None)
    /\ UNCHANGED <<game_state, next_crisis_time, recent_messages, pc,
                   round_pos, now, start_time, end_log, limiterVars>>

NextGame ==
    \/ \E c \in StartGames : StartGame(c)
    \/ \E c \in StartGames : LoopSkipped(c)
    \/ \E c \in StartGames : TimeLimitReached(c)
    \/ \E c \in StartGames : ProblemSolvedCheckFails(c)
    \/ \E c \in StartGames : Finally(c)
    \/ CommandStatus
    \/ CommandStop
    \/ CommandQuitGame
    \/ Shutdown

SpecGame == InitGame /\ [][NextGame]_vars

\* the reasons of the _end_game calls of the game, in order
EndReasons == [i \in 1..Len(end_log) |-> end_log[i].reason]
\* the start_game calls in progress
InProgress == {c \in StartGames : pc[c] # "idle"}
\* every start_game has returned
GameOver == InProgress = {} /\ end_log # <<>>

\* C10: a game whose tick found the time limit reached, with victims left,
\* ends with the reason "Time limit reached", and the scorer (get_game_result
\* in _end_game) runs exactly once for it: no second _end_game call follows.
C10_TimeLimitScoredOnce ==
    (end_log # <<>> /\ end_log[1].reason = "Time limit reached")
        => /\ Len(end_log) = 1
           /\ game_state.crisis_state.victim_locations # <<>>

\* the game found the time limit reached with victims left, has ended, and
\* the scorer has run twice: at line 66 and again in the finally clause
C10_Witness ==
    /\ GameOver
    /\ game_state.crisis_state.victim_locations # <<>>
    /\ EndReasons = <<"Time limit reached", "Game ended">>
    /\ end_log[1].result = end_log[2].result

\* the last _end_game call
LastEnd(log) == log[Len(log)]
\* start_game call c makes the checks at the top of its first iteration and
\* ends the game there
TopOfLoopEnds(c) ==
    /\ pc[c] = "announce"
    /\ pc'[c] # "announce"
    /\ ~shutdown_event
    /\ Len(end_log') = Len(end_log) + 1

StopRequested == call.op \in {"STOP", "QUIT_GAME", "shutdown"}

\* C12: a stop request (STOP, QUIT_GAME or shutdown) issued while a
\* start_game call is in progress is observed by the loop condition the next
\* time it is evaluated: the call starts no iteration, and ends the game
\* with one run of the scorer.
C12_StopObservedAtTopOfLoop ==
    [][\A c \in StartGames :
        (pc[c] = "announce" /\ StopRequested /\ pc'[c] # "announce")
            => /\ call'.ret = "loop skipped"
               /\ Len(end_log') = Len(end_log) + 1
      ]_vars

\* a STOP command has arrived while start_game awaits its start message:
\* running is False, and line 55 is about to set it
C12_Witness ==
    /\ call.op = "STOP"
    /\ ~running
    /\ ~shutdown_event
    /\ \E c \in StartGames : pc[c] = "announce"

\* C14: at most one start_game call is in progress at any time: a START_GAME
\* command begins a game only when no other game has been begun and not yet
\* ended, whatever the interleaving of the commands with the awaits of
\* start_game.
C14_OneGameAtATime == Cardinality(InProgress) <= 1

\* a second START_GAME has replaced the game state while the first start_game
\* awaited, and the first call has then ended and scored the second game,
\* whose own start_game has not reached its loop yet
C14_Witness ==
    /\ \E c \in StartGames : pc[c] = "announce"
    /\ end_log # <<>>

\* start_game call c has met an unexpected fault inside an iteration of its
\* loop
FaultInIteration(c) ==
    /\ pc[c] = "announce"
    /\ pc'[c] # "announce"
    /\ call'.ret = "AttributeError"

\* C15: an unexpected fault raised inside an iteration of the loop is caught
\* and the loop goes on to its next iteration: the fault does not end the
\* game, and start_game does not return.
C15_FaultDoesNotEndGame ==
    [][\A c \in StartGames :
        FaultInIteration(c) => (end_log' = end_log /\ pc'[c] # "idle")
      ]_vars

\* the AttributeError of the first iteration has ended the game, within the
\* time limit and with no stop request: start_game has returned
C15_Witness ==
    /\ call.op = "start_game"
    /\ call.ret = "AttributeError"
    /\ ~shutdown_event
    /\ InProgress = {}
    /\ Len(end_log) = 1
    /\ LastEnd(end_log).reason = "Game ended"
    /\ game_state.crisis_state.victim_locations # <<>>

-----------------------------------------------------------------------------
(* SpecCrisis: the crisis state under update_crisis_state alone, from the   *)
(* state of initialize_game, over enough ticks for the periodic             *)
(* deterioration and the crisis events to reach their limits.               *)

MaxTicksCrisis == 32
\* a tick comes one or two observation intervals after the one before
MaxTickGap == 2 * observation_interval

InitCrisis ==
    /\ game_state = initialize_game
    /\ next_crisis_time = InitialNextCrisisTime
    /\ call = Call("initialize_game", None, None, None)
    /\ ManagerIdle
    /\ LimiterIdle

CrisisUpdate ==
    LET last == game_state.crisis_state.time_elapsed
    IN  UpdateCrisisState({e \in ElapsedAfter(last, call.op = "initialize_game",
                                              MaxTicksCrisis) :
                              e <= last + MaxTickGap})

NextCrisis == CrisisUpdate

SpecCrisis == InitCrisis /\ [][NextCrisis]_vars

GasPressure == game_state.crisis_state.gas_pressure_level
Stability == game_state.crisis_state.building_stability

\* C13: in every state reached by deterioration steps and crisis events, the
\* gas pressure level is within 0..10 and the building stability is within
\* 0..10.
C13_GasAndStabilityInRange ==
    /\ GasPressure \in 0..10
    /\ Stability \in 0..10

\* the gas pressure has reached 10 and the stability its floor, and a
\* deterioration step at a multiple of 20 s has just run on that state, after
\* four crisis events or more
C13_Witness ==
    /\ call.op = "update_crisis_state"
    /\ GasPressure = MaxGasPressure
    /\ Stability = MinStability
    /\ game_state.crisis_state.time_elapsed = 8 * DeteriorationPeriod
    /\ Len(game_state.crisis_state.crisis_events) >= 4

-----------------------------------------------------------------------------
(* SpecTick: the body of the loop of start_game, lines 74-92, one tick      *)
(* after another: update_crisis_state, the agent round with its turns, and  *)
(* the sleep.  The notifications between them (_check_critical_conditions,  *)
(* _send_crisis_update, _send_status_update) read the game state and write  *)
(* nothing.  The checks at the top of the loop are taken to pass.           *)

MaxTicksTick == 3

TickBody_RoundFirst == <<"_process_agent_round", "update_crisis_state", "sleep">>

\* the calls of the body that write the game state or wait, in their order
TickBody == <<"update_crisis_state", "_process_agent_round", "sleep">>

PositionInTick(step) == CHOOSE i \in 1..Len(TickBody) : TickBody[i] = step
NextInTick(step) ==
    TickBody[IF PositionInTick(step) = Len(TickBody) THEN 1
             ELSE PositionInTick(step) + 1]

\* what _call_llm returns in a tick: the fire team asks for the ladder at
\* Floor3, the medical team for the ladder at Floor4 or for ambulance 1 at
\* the lobby, and the call of the police team fails
TickResponses(team) ==
    CASE team = FIRE -> {<<"L", "→", "F", "3", "?">>}
      [] team = MEDICAL -> {<<"L", "→", "F", "4", "?">>,
                            <<"A", "M", "B", "1", "→", "L", "B", "?">>}
      [] team = POLICE -> {<<>>}

InitTick ==
    /\ game_state = initialize_game
    /\ next_crisis_time = InitialNextCrisisTime
    /\ call = Call("initialize_game", None, None, None)
    /\ recent_messages = <<>>
    /\ running = TRUE
    /\ shutdown_event = FALSE
    /\ pc = [c \in StartGames |-> IF c = 1 THEN TickBody[1] ELSE "idle"]
    /\ round_pos = 0
    /\ now = 0
    /\ start_time = [c \in StartGames |-> 0]
    /\ end_log = <<>>
    /\ LimiterIdle

\* line 75
TickUpdateCrisisState ==
    /\ pc[1] = "update_crisis_state"
    /\ LET last == game_state.crisis_state.time_elapsed
           first == \A i \in 1..Len(TickBody) : call.op # TickBody[i]
       IN  \E elapsed_time \in ElapsedAfter(last, first, MaxTicksTick) :
             /\ elapsed_time <= last + MaxTickGap
             /\ \E e \in EventDraws(elapsed_time) :
                  \E pick \in PickDraws(elapsed_time, e) :
                    LET r == update_crisis_state(game_state, next_crisis_time,
                                elapsed_time, crisis_scenarios[e], pick)
                    IN  /\ game_state' = r.gs
                        /\ next_crisis_time' = r.next_crisis_time
    /\ call' = Call("update_crisis_state", None, None, None)
    /\ pc' = [pc EXCEPT ![1] = NextInTick(@)]
    /\ UNCHANGED <<recent_messages, running, shutdown_event, round_pos, now,
                   start_time, end_log, limiterVars>>

\* line 81: _process_agent_round is called
TickBeginRound ==
    /\ pc[1] = "_process_agent_round"
    /\ call.op # "generate_response"
    /\ BeginRound

\* one turn of the round
TickAgent ==
    /\ pc[1] = "_process_agent_round"
    /\ AgentTurn([team \in Teams |-> TickResponses(team)])

\* _process_agent_round returns after the turn of the last agent
TickEndRound ==
    /\ pc[1] = "_process_agent_round"
    /\ round_pos = 0
    /\ call.op = "generate_response"
    /\ call' = Call("_process_agent_round", None, None, "done")
    /\ pc' = [pc EXCEPT ![1] = NextInTick(@)]
    /\ UNCHANGED <<game_state, next_crisis_time, recent_messages, running,
                   shutdown_event, round_pos, now, start_time, end_log, limiterVars>>

\* line 92: the tick is over
TickSleep ==
    /\ pc[1] = "sleep"
    /\ call' = Call("sleep", None, None, None)
    /\ pc' = [pc EXCEPT ![1] = NextInTick(@)]
    /\ UNCHANGED <<game_state, next_crisis_time, recent_messages, running,
                   shutdown_event, round_pos, now, start_time, end_log, limiterVars>>

NextTick ==
    \/ TickUpdateCrisisState
    \/ TickBeginRound
    \/ TickAgent
    \/ TickEndRound
    \/ TickSleep

SpecTick == InitTick /\ [][NextTick]_vars

\* the locations with victims left whose rescue precondition holds
Rescuable(gs) ==
    {location \in CrisisLocation :
        /\ DictGet(gs.crisis_state.victim_locations, location, 0) > 0
        /\ can_rescue_at_location(gs, location)}
\* the step is the sleep at the end of a tick
EndOfTick == pc[1] = "sleep" /\ pc'[1] # "sleep"

CountdownOfTick == call'.op = "update_crisis_state" /\ pc'[1] # pc[1]
\* the step is a turn in which a team's message asks for the ladder
LadderAsked ==
    /\ round_pos' # round_pos
    /\ call'.op = "generate_response"
    /\ call'.ret = "message"
    /\ In(<<"L", "→">>, upper(game_state'.messages[Len(game_state'.messages)].content))

\* C19: the countdown of the resources is the first step of a tick, before
\* any turn of the tick's agent round, and runs once in the tick (the next
\* one follows the tick's sleep); a team that asks in the round for a
\* ladder that is free, by this countdown or from the start, is granted it.
C19_CountdownBeforeRequests ==
    [][/\ CountdownOfTick => call.op \in {"initialize_game", "sleep"}
       /\ (round_pos' # round_pos /\ call'.op = "generate_response")
            => pc[1] = "_process_agent_round" /\ pc'[1] = pc[1]
       /\ (LadderAsked /\ game_state.resource_allocation.ladder_owner = None)
            => game_state'.resource_allocation.ladder_owner = call'.team
      ]_vars

\* the fire team was granted the ladder in the first tick; the countdown of
\* the second tick has ended the lease, and the medical team has been
\* granted the ladder in the round of that same tick
C19_Witness ==
    /\ pc[1] = "_process_agent_round"
    /\ game_state.crisis_state.time_elapsed = observation_interval
    /\ game_state.resource_allocation.ladder_owner = MEDICAL
    /\ game_state.resource_allocation.ladder_location = FLOOR_4
    /\ \E i \in 1..Len(game_state.coordination_events) :
          /\ game_state.coordination_events[i].teams_involved = <<FIRE>>
          /\ game_state.coordination_events[i].resource = LADDER

-----------------------------------------------------------------------------
(* SpecPrecondition: _can_rescue_at_location as a function of the resource  *)
(* allocation and the location.  The allocations are those the fields of    *)
(* ResourceAllocation can hold: the ladder where initialize_game puts it,   *)
(* or owned and placed by a request; each ambulance nowhere, or placed by a *)
(* request of any team; the evacuation route in each of the statuses of     *)
(* models.py.                                                               *)

EvacStatuses == {"BLOCKED", "CLEAR", "PARTIAL"}
LadderPlacements ==
    {[owner |-> None, location |-> EXTERIOR], [owner |-> None, location |-> None]}
        \cup [owner : {FIRE, MEDICAL}, location : {FLOOR_3, FLOOR_4, LOBBY}]
AmbulancePlacements(locations) ==
    {[owner |-> None, location |-> None]}
        \cup [owner : {MEDICAL, POLICE}, location : locations]

Allocated(ladder, ambulance_1, ambulance_2, evac) ==
    [initialize_game EXCEPT
        !.resource_allocation.ladder_owner = ladder.owner,
        !.resource_allocation.ladder_location = ladder.location,
        !.resource_allocation.ladder_eta =
            IF ladder.owner = None THEN NoInt ELSE SomeInt(DefaultDuration),
        !.resource_allocation.ambulance_1_owner = ambulance_1.owner,
        !.resource_allocation.ambulance_1_location = ambulance_1.location,
        !.resource_allocation.ambulance_1_eta =
            IF ambulance_1.owner = None THEN NoInt ELSE SomeInt(DefaultDuration),
        !.resource_allocation.ambulance_2_owner = ambulance_2.owner,
        !.resource_allocation.ambulance_2_location = ambulance_2.location,
        !.resource_allocation.ambulance_2_eta =
            IF ambulance_2.owner = None THEN NoInt ELSE SomeInt(DefaultDuration),
        !.resource_allocation.evac_route_status = evac]

InitPrecondition ==
    /\ \E ladder \in LadderPlacements,
          ambulance_1 \in AmbulancePlacements({FLOOR_3, LOBBY, EXTERIOR}),
          ambulance_2 \in AmbulancePlacements({FLOOR_4, FLOOR_1, EAST_WING}),
          evac \in EvacStatuses :
            game_state = Allocated(ladder, ambulance_1, ambulance_2, evac)
    /\ next_crisis_time = InitialNextCrisisTime
    /\ call = Call("initialize_game", None, None, None)
    /\ ManagerIdle
    /\ LimiterIdle

\* _can_rescue_at_location(game_state, location), for each location
CanRescueAtLocation ==
    /\ \E location \in CrisisLocation :
          call' = Call("_can_rescue_at_location", None, None,
                       [location |-> location,
                        can_rescue |-> can_rescue_at_location(game_state,
                                                              location)])
    /\ UNCHANGED <<game_state, next_crisis_time>>
    /\ UNCHANGED <<managerVars, limiterVars>>

NextPrecondition == CanRescueAtLocation

SpecPrecondition == InitPrecondition /\ [][NextPrecondition]_vars

\* C20: _can_rescue_at_location is the specified precondition, for every
\* location and allocation: Floor3 and Floor4 need the ladder owned by Fire
\* and located there and an ambulance located there, whoever owns it;
\* Floor1, Floor2 and the lobby need an ambulance located there; the
\* exterior needs an ambulance located there and the evacuation route
\* clear; the east and west wings are never rescuable.
C20_PreconditionAsSpecified ==
    call.op = "_can_rescue_at_location" =>
        LET location == call.ret.location
            resources == game_state.resource_allocation
            ambulance_there ==
                \E at \in {resources.ambulance_1_location,
                            resources.ambulance_2_location} : at = location
            ladder_there == /\ resources.ladder_owner = FIRE
                            /\ resources.ladder_location = location
        IN  call.ret.can_rescue =
                CASE location \in {FLOOR_3, FLOOR_4} ->
                        ladder_there /\ ambulance_there
                  [] location \in {FLOOR_1, FLOOR_2, LOBBY} -> ambulance_there
                  [] location = EXTERIOR ->
                        ambulance_there /\ resources.evac_route_status = "CLEAR"
                  [] location \in {EAST_WING, WEST_WING} -> FALSE

\* Floor4 is found rescuable with Fire's ladder there and ambulance 2 there
\* in the hands of the police, while ambulance 1 is elsewhere
C20_Witness ==
    /\ call.op = "_can_rescue_at_location"
    /\ call.ret = [location |-> FLOOR_4, can_rescue |-> TRUE]
    /\ game_state.resource_allocation.ladder_owner = FIRE
    /\ game_state.resource_allocation.ambulance_2_owner = POLICE
    /\ game_state.resource_allocation.ambulance_1_location # FLOOR_4

-----------------------------------------------------------------------------
(* SpecCredit: process_rescue_operations as a function of the game state:   *)
(* passes over the allocations of SpecPrecondition's kind and two victim    *)
(* mappings, the one of initialize_game and one with victims at a low       *)
(* floor, at Floor4 and at the exterior.                                    *)

CreditVictims ==
    <<[k |-> FLOOR_2, v |-> 1], [k |-> FLOOR_4, v |-> 2], [k |-> EXTERIOR, v |-> 3]>>

InitCredit ==
    /\ \E ladder \in LadderPlacements,
          ambulance_1 \in AmbulancePlacements({FLOOR_3, FLOOR_4, EXTERIOR}),
          ambulance_2 \in AmbulancePlacements({FLOOR_4, LOBBY, FLOOR_2}),
          evac \in EvacStatuses,
          victims \in {InitialVictims, CreditVictims} :
            game_state =
                [Allocated(ladder, ambulance_1, ambulance_2, evac)
                    EXCEPT !.crisis_state.victim_locations = victims]
    /\ next_crisis_time = InitialNextCrisisTime
    /\ call = Call("initialize_game", None, None, None)
    /\ ManagerIdle
    /\ LimiterIdle

NextCredit == ProcessRescueOperations

SpecCredit == InitCredit /\ [][NextCredit]_vars

\* the step is a rescue pass; its returned list is call'.ret
RescuePass == call'.op = "process_rescue_operations"
HighFloors == {FLOOR_3, FLOOR_4}
\* the numbers rescued by the pass at the locations of a set
RescuedAt(rescued, locations) ==
    LET there == SelectSeq(rescued, LAMBDA r : r.location \in locations)
    IN  [i \in 1..Len(there) |-> there[i].victims_saved]
\* what the pass added to a counter of a team
Gained(counter, team) ==
    game_state'.team_statuses[team][counter] - game_state.team_statuses[team][counter]

\* C21: for every high-floor rescue of n victims by a pass, n is 1 or 2,
\* Fire's victims-saved grows by floor(n/2) and Medical's by ceil(n/2), so
\* by n together (Medical's grows besides by what the pass rescues at the
\* other locations).
C21_HighFloorCreditSplit ==
    [][RescuePass =>
        LET high == RescuedAt(call'.ret, HighFloors)
            other == RescuedAt(call'.ret, CrisisLocation \ HighFloors)
            floors == [i \in 1..Len(high) |-> high[i] \div 2]
            ceils == [i \in 1..Len(high) |-> (high[i] + 1) \div 2]
        IN  /\ \A i \in 1..Len(high) : high[i] \in {1, 2}
            /\ Gained("victims_saved", FIRE) = SumSeq(floors)
            /\ Gained("victims_saved", MEDICAL) - SumSeq(other) = SumSeq(ceils)
            /\ Gained("victims_saved", FIRE) + Gained("victims_saved", MEDICAL)
                    - SumSeq(other) = SumSeq(high)
      ]_vars

\* a pass has rescued the one victim of Floor4 and nothing else: Medical has
\* the credit and Fire, whose ladder was there, has none
C21_Witness ==
    /\ call.op = "process_rescue_operations"
    /\ Len(call.ret) = 1
    /\ call.ret[1].location = FLOOR_4
    /\ call.ret[1].victims_saved = 1
    /\ call.ret[1].teams = <<FIRE, MEDICAL>>
    /\ Saved(game_state, FIRE) = 0
    /\ Saved(game_state, MEDICAL) = 1

LowFloors == {FLOOR_1, FLOOR_2, LOBBY}
TeamCounters == {"victims_saved", "fire_contained", "people_evacuated"}

\* C22: for the rescues of a pass at Floor1, Floor2 and the lobby Medical's
\* victims-saved grows by the number rescued and no other team counter
\* changes; for a rescue at the exterior Medical's victims-saved grows by the
\* number rescued and so does Police's people-evacuated (Medical's and
\* Fire's victims-saved grow besides by their shares of a high-floor
\* rescue).
C22_LowFloorAndExteriorCredit ==
    [][RescuePass =>
        LET high == RescuedAt(call'.ret, HighFloors)
            low == RescuedAt(call'.ret, LowFloors)
            exterior == RescuedAt(call'.ret, {EXTERIOR})
            shares == [i \in 1..Len(high) |-> high_floor_medical_credit(high[i])]
        IN  /\ Gained("victims_saved", MEDICAL)
                    = SumSeq(low) + SumSeq(exterior) + SumSeq(shares)
            /\ Gained("people_evacuated", POLICE) = SumSeq(exterior)
            /\ high = <<>> => Gained("victims_saved", FIRE) = 0
            /\ \A team \in Teams, counter \in TeamCounters :
                    \/ counter = "victims_saved" /\ team \in {FIRE, MEDICAL}
                    \/ counter = "people_evacuated" /\ team = POLICE
                    \/ Gained(counter, team) = 0
      ]_vars

\* a pass has rescued the victim of Floor2 and two of the three at the
\* exterior: Medical has 3 victims saved, Police 2 people evacuated, and
\* Fire nothing
C22_Witness ==
    /\ call.op = "process_rescue_operations"
    /\ RescuedAt(call.ret, {FLOOR_2}) = <<1>>
    /\ RescuedAt(call.ret, {EXTERIOR}) = <<2>>
    /\ RescuedAt(call.ret, HighFloors) = <<>>
    /\ Saved(game_state, MEDICAL) = 3
    /\ game_state.team_statuses[POLICE].people_evacuated = 2
    /\ Saved(game_state, FIRE) = 0

\* the events the pass appended
Appended ==
    SubSeq(game_state'.coordination_events,
           Len(game_state.coordination_events) + 1,
           Len(game_state'.coordination_events))
\* the teams that hold the resources a rescue at the location uses: the
\* ladder at a high floor, the ambulances located there, and the evacuation
\* route at the exterior
Holders(gs, location) ==
    LET resources == gs.resource_allocation
    IN  ((IF location \in HighFloors THEN {resources.ladder_owner} ELSE {})
         \cup (IF resources.ambulance_1_location = location
               THEN {resources.ambulance_1_owner} ELSE {})
         \cup (IF resources.ambulance_2_location = location
               THEN {resources.ambulance_2_owner} ELSE {})
         \cup (IF location = EXTERIOR
               THEN {resources.evac_route_controller} ELSE {})) \ {None}
SeqRange(seq) == {seq[i] : i \in 1..Len(seq)}
\* the pass appended one event for each location it rescued, in their
\* order, with the kind, outcome, lives saved and time saved of a rescue
OneEventPerRescue ==
    /\ Len(Appended) = Len(call'.ret)
    /\ \A i \in 1..Len(Appended) :
          /\ Appended[i].event_type = "SUCCESSFUL_RESCUE"
          /\ Appended[i].outcome = "SUCCESS"
          /\ Appended[i].location = call'.ret[i].location
          /\ Appended[i].lives_saved = call'.ret[i].victims_saved
          /\ Appended[i].lives_saved = VictimCount(game_state, Appended[i].location)
                - VictimCount(game_state', Appended[i].location)
          /\ Appended[i].time_saved = 30
    /\ \A location \in CrisisLocation :
          VictimCount(game_state', location) = VictimCount(game_state, location)
              => \A i \in 1..Len(Appended) : Appended[i].location # location

\* C23 as stated: each location rescued in a pass appends exactly one
\* CoordinationEvent of kind successful rescue, with outcome success,
\* lives-saved the number rescued there, time-saved 30, and teams the teams
\* that contributed the resources of the rescue (the holders of the ladder
\* and of the ambulances there); a location not rescued appends nothing.
C23_EventListsContributors ==
    [][RescuePass =>
        /\ OneEventPerRescue
        /\ \A i \in 1..Len(Appended) :
              SeqRange(Appended[i].teams_involved)
                  = Holders(game_state, Appended[i].location)
      ]_vars

\* C23 amended: each location rescued in a pass appends exactly one
\* CoordinationEvent of kind successful rescue, with outcome success,
\* lives-saved the number rescued there, time-saved 30, and teams the teams
\* credited for the rescue, whoever holds the resources: Fire and Medical at
\* a high floor, Medical at a low floor or the lobby, Medical and Police at
\* the exterior; a location not rescued appends nothing.
C23_EventListsCreditedTeams ==
    [][RescuePass =>
        /\ OneEventPerRescue
        /\ \A i \in 1..Len(Appended) :
              Appended[i].teams_involved =
                  CASE Appended[i].location \in HighFloors -> <<FIRE, MEDICAL>>
                    [] Appended[i].location \in LowFloors -> <<MEDICAL>>
                    [] Appended[i].location = EXTERIOR -> <<MEDICAL, POLICE>>
      ]_vars

\* a pass has rescued two victims at the lobby, where the only ambulance is
\* one that Police holds: its one event lists Medical
C23_Witness ==
    /\ call.op = "process_rescue_operations"
    /\ Len(call.ret) = 1
    /\ call.ret[1].location = LOBBY
    /\ Len(Events) = 1
    /\ Events[1].teams_involved = <<MEDICAL>>
    /\ Events[1].lives_saved = 2
    /\ Events[1].time_saved = 30
    /\ Alloc.ambulance_2_location = LOBBY
    /\ Alloc.ambulance_2_owner = POLICE
    /\ Alloc.ambulance_1_location # LOBBY

-----------------------------------------------------------------------------
(* The message handling of the manager, on the ticks of SpecTick *)

\* the step is a team's turn, with all that its message brought about
Turn == round_pos' # round_pos /\ call'.op = "generate_response"
\* the resources the step granted
Granted ==
    {r \in Allocatable :
        /\ OwnerOf(game_state.resource_allocation, r) = None
        /\ OwnerOf(game_state'.resource_allocation, r) # None}

Emitted == game_state'.messages[Len(game_state'.messages)]
\* the resource a request names, as _process_resource_request reads it
RequestedResource(message) ==
    LET content == upper(message.content)
    IN  IF In(<<"L", "→">>, content) \/ In(<<"L", "A", "D", "D", "E", "R">>, content)
        THEN LADDER
        ELSE IF In(<<"A", "M", "B">>, content)
        THEN IF In(<<"1">>, content) THEN AMBULANCE_1 ELSE AMBULANCE_2
        ELSE None
\* the step is the turn of a team whose message asks for a resource that has
\* an owner
DeniedRequest ==
    /\ Turn
    /\ Len(game_state'.messages) = Len(game_state.messages) + 1
    /\ Emitted.message_type = "RESOURCE_REQUEST"
    /\ RequestedResource(Emitted) # None
    /\ extract_location_from_message(upper(Emitted.content)) # None
    /\ OwnerOf(game_state.resource_allocation, RequestedResource(Emitted)) # None
\* the fields of a team's status that record its transmissions
TransmissionBookkeeping == {"transmissions_used", "last_transmission_time"}

\* C25: a message that requests a resource that already has an owner changes
\* neither the resource allocation, nor the coordination log, nor any team
\* counter but the emitter's transmission bookkeeping, and leaves nothing
\* behind for a later tick: the message log and the vocabulary are all else
\* that the turn changes.
C25_DenialChangesNothing ==
    [][DeniedRequest =>
        /\ game_state'.resource_allocation = game_state.resource_allocation
        /\ game_state'.coordination_events = game_state.coordination_events
        /\ \A team \in Teams : \A field \in DOMAIN game_state.team_statuses[team] :
              (team # call'.team \/ field \notin TransmissionBookkeeping)
              => game_state'.team_statuses[team][field]
                    = game_state.team_statuses[team][field]
        /\ game_state'.crisis_state = game_state.crisis_state
        /\ \A field \in DOMAIN game_state \ {"messages", "vocabulary", "team_statuses"} :
              game_state'[field] = game_state[field]
        /\ UNCHANGED <<next_crisis_time, recent_messages, running, pc>>
      ]_vars

\* the medical team has just asked for the ladder that the fire team was
\* granted in the same round: the ladder is still the fire team's, at the
\* floor the fire team named
C25_Witness ==
    /\ call.op = "generate_response"
    /\ call.team = MEDICAL
    /\ call.ret = "message"
    /\ game_state.messages[Len(game_state.messages)].content
            = <<"L", "→", "F", "4", "?">>
    /\ game_state.resource_allocation.ladder_owner = FIRE
    /\ game_state.resource_allocation.ladder_location = FLOOR_3
    /\ game_state.team_statuses[MEDICAL].transmissions_used > 0

-----------------------------------------------------------------------------
(* calculate_score on game states with credits in every team *)

MaxFormulaCredit == 1
FormulaCredits == 0..MaxFormulaCredit
FormulaStabilities == {0, 7, 10}

FormulaFixture(saved_fire, saved_police, contained, evacuated, events, shorthand, terms, urgency, elapsed, stability) ==
    [initialize_game EXCEPT
        !.team_statuses[FIRE].victims_saved = saved_fire,
        !.team_statuses[POLICE].victims_saved = saved_police,
        !.team_statuses[POLICE].fire_contained = contained,
        !.team_statuses[POLICE].people_evacuated = evacuated,
        !.emergency_vocabulary[MEDICAL].shorthand_developed = shorthand,
        !.emergency_vocabulary[POLICE].coordination_terms = terms,
        !.emergency_vocabulary[FIRE].urgency_terms = urgency,
        !.coordination_events = [i \in 1..events |-> ScoreEvent],
        !.crisis_state.time_elapsed = elapsed,
        !.crisis_state.building_stability = stability]

InitFormula ==
    /\ \E saved_fire, saved_police, contained, evacuated, events, shorthand,
          terms, urgency \in FormulaCredits,
          elapsed \in ScoreTimes, stability \in FormulaStabilities :
          game_state = FormulaFixture(saved_fire, saved_police, contained,
                            evacuated, events, shorthand, terms, urgency,
                            elapsed, stability)
    /\ next_crisis_time = InitialNextCrisisTime
    /\ call = Call("initialize_game", None, None, None)
    /\ ManagerIdle
    /\ LimiterIdle

NextFormula == CalculateScore

SpecFormula == InitFormula /\ [][NextFormula]_vars

\* the sum of a counter of the team statuses over the teams
TotalOf(gs, counter) ==
    gs.team_statuses[FIRE][counter] + gs.team_statuses[MEDICAL][counter]
        + gs.team_statuses[POLICE][counter]
\* the sum of the three vocabulary counters of a team
VocabularyOf(gs, team) ==
    gs.emergency_vocabulary[team].shorthand_developed
        + gs.emergency_vocabulary[team].coordination_terms
        + gs.emergency_vocabulary[team].urgency_terms
\* 100 V + 50 F + 25 E + 10 C + 2 W - 0.1 max(0, elapsed - 180)
\* - 5 (10 - stability), in tenths of a point
WeightedSumTenths(gs) ==
    1000 * TotalOf(gs, "victims_saved") + 500 * TotalOf(gs, "fire_contained")
    + 250 * TotalOf(gs, "people_evacuated")
    + 100 * Len(gs.coordination_events)
    + 20 * (VocabularyOf(gs, FIRE) + VocabularyOf(gs, MEDICAL)
            + VocabularyOf(gs, POLICE))
    - Max(0, gs.crisis_state.time_elapsed - GracePeriod)
    - 50 * (10 - gs.crisis_state.building_stability)

\* C26: calculate_score is max(0, 100 V + 50 F + 25 E + 10 C + 2 W
\* - 0.1 max(0, elapsed - 180) - 5 (10 - stability)), with V, F and E the
\* sums over the teams of victims saved, fire contained and people evacuated,
\* C the number of coordination events and W the sum of the three vocabulary
\* counters of all the teams.
C26_ScoreIsWeightedSum ==
    call.op = "calculate_score"
        => call.ret = Max(0, WeightedSumTenths(game_state))

\* a score with every term of the sum at work: credits of each kind in the
\* police team, an event, vocabulary, a time penalty and a damage penalty
C26_Witness ==
    /\ call.op = "calculate_score"
    /\ game_state.team_statuses[POLICE].victims_saved = 1
    /\ game_state.team_statuses[POLICE].fire_contained = 1
    /\ game_state.team_statuses[POLICE].people_evacuated = 1
    /\ Len(game_state.coordination_events) = 1
    /\ VocabularyOf(game_state, POLICE) = 1
    /\ game_state.crisis_state.time_elapsed = 300
    /\ game_state.crisis_state.building_stability = 7
    /\ game_state.team_statuses[FIRE].victims_saved = 0
    /\ VocabularyOf(game_state, FIRE) + VocabularyOf(game_state, MEDICAL) = 0
    /\ call.ret = 1600

-----------------------------------------------------------------------------
(* update_crisis_state called at ticks any number of intervals apart *)

MaxTicksSchedule == 9

InitSchedule ==
    /\ game_state = initialize_game
    /\ next_crisis_time = InitialNextCrisisTime
    /\ call = Call("initialize_game", None, None, None)
    /\ ManagerIdle
    /\ LimiterIdle

ScheduleUpdate ==
    UpdateCrisisState(ElapsedAfter(game_state.crisis_state.time_elapsed,
                                   call.op = "initialize_game",
                                   MaxTicksSchedule))

NextSchedule == ScheduleUpdate

SpecSchedule == InitSchedule /\ [][NextSchedule]_vars

\* the number of crisis events the step logged
EventsFired ==
    Len(game_state'.crisis_state.crisis_events)
        - Len(game_state.crisis_state.crisis_events)

\* C27: one call of update_crisis_state triggers at most one scripted crisis
\* event: one when the elapsed time passed has reached the schedule, none
\* otherwise, however many periods have gone by since the call before; and
\* the schedule moves on by one period of 15 seconds for each event fired.
C27_OneEventPerCall ==
    [][call'.op = "update_crisis_state" =>
        /\ EventsFired \in {0, 1}
        /\ EventsFired = 1
              <=> game_state'.crisis_state.time_elapsed >= next_crisis_time
        /\ next_crisis_time' = next_crisis_time + 15 * EventsFired
      ]_vars

\* the first call of a game comes 45 seconds in, three periods after the
\* start: one event is logged and the schedule stands at 30 seconds
C27_Witness ==
    /\ call.op = "update_crisis_state"
    /\ game_state.crisis_state.time_elapsed = 3 * CrisisPeriod
    /\ Len(game_state.crisis_state.crisis_events) = 1
    /\ next_crisis_time = 2 * CrisisPeriod

\* the step added one to the gas pressure and took one off the stability
Deteriorated ==
    /\ GasPressure' = GasPressure + 1
    /\ Stability' = Stability - 1
\* the step left the gas pressure and the stability alone
Undeteriorated ==
    /\ GasPressure' = GasPressure
    /\ Stability' = Stability

\* C28: the deterioration of gas pressure and stability runs on a schedule
\* counter of its own and not on the elapsed time modulo 20: a call of
\* update_crisis_state at elapsed time 0 does not apply it, and the first
\* call at or after 20 seconds applies it whether or not its elapsed time is
\* a multiple of 20 (calls that fire a scripted event, which has effects of
\* its own, set aside).
C28_DeteriorationOnOwnSchedule ==
    [][(call'.op = "update_crisis_state" /\ EventsFired = 0) =>
        LET before == game_state.crisis_state.time_elapsed
            elapsed_time == game_state'.crisis_state.time_elapsed
        IN  /\ elapsed_time < DeteriorationPeriod => Undeteriorated
            /\ (before < DeteriorationPeriod
                    /\ elapsed_time >= DeteriorationPeriod) => Deteriorated
      ]_vars

\* the first call of a game, at elapsed time 0, has raised the gas pressure
\* from 3 to 4 and lowered the stability from 7 to 6
C28_Witness ==
    /\ call.op = "update_crisis_state"
    /\ game_state.crisis_state.time_elapsed = 0
    /\ GasPressure = 4
    /\ Stability = 6

\* the entry the step appended to the log of crisis events
LoggedKind ==
    game_state'.crisis_state.crisis_events[
        Len(game_state'.crisis_state.crisis_events)]

\* C29: a scripted crisis event that fires appends to the log of crisis
\* events one entry of the kind of the event chosen: an event that spreads
\* the fire logs FIRE_SPREADING, one that finds a victim logs VICTIM_FOUND,
\* one that raises the gas pressure by two logs GAS_PRESSURE.
C29_LogEntryIsChosenKind ==
    [][EventsFired = 1 =>
        /\ game_state'.crisis_state.fire_locations
                # game_state.crisis_state.fire_locations
            => LoggedKind = "FIRE_SPREADING"
        /\ game_state'.crisis_state.victim_locations
                # game_state.crisis_state.victim_locations
            => LoggedKind = "VICTIM_FOUND"
        /\ GasPressure' >= GasPressure + 2 => LoggedKind = "GAS_PRESSURE"
      ]_vars

\* the one event fired so far found a victim on floor 2, and the log holds
\* one entry, of the kind FIRE_SPREADING
C29_Witness ==
    /\ call.op = "update_crisis_state"
    /\ DictGet(game_state.crisis_state.victim_locations, FLOOR_2, 0) = 1
    /\ game_state.crisis_state.crisis_events = <<"FIRE_SPREADING">>

-----------------------------------------------------------------------------
(* The order of the teams within a tick, on the ticks of SpecTick *)

\* the turn before this step was the fire team's, its message asked for the
\* ladder, and the ladder was granted to it then: nothing has counted its
\* eta down yet
LadderJustGrantedToFire ==
    /\ call.op = "generate_response"
    /\ call.team = FIRE
    /\ call.ret = "message"
    /\ RequestedResource(game_state.messages[Len(game_state.messages)]) = LADDER
    /\ game_state.resource_allocation.ladder_owner = FIRE
    /\ game_state.resource_allocation.ladder_eta = SomeInt(DefaultDuration)
\* the step is a turn in which the team emits a request for the ladder
AsksForLadder(team) ==
    /\ Turn
    /\ call'.team = team
    /\ Len(game_state'.messages) = Len(game_state.messages) + 1
    /\ Emitted.message_type = "RESOURCE_REQUEST"
    /\ RequestedResource(Emitted) = LADDER
    /\ extract_location_from_message(upper(Emitted.content)) # None

\* C30: within a tick the teams take their turns one after another in the
\* order Fire, Medical, Police, each turn with all its effects on the
\* allocation before the next begins; so when the fire team and the medical
\* team ask for the free ladder in the same tick, the fire team is granted
\* it and the medical team is denied.
C30_TeamsInFixedOrder ==
    [][/\ (Turn /\ call.op # "generate_response") => call'.team = FIRE
       /\ (Turn /\ call.op = "generate_response")
            => \/ call.team = FIRE /\ call'.team = MEDICAL
               \/ call.team = MEDICAL /\ call'.team = POLICE
       /\ (call'.op = "_process_agent_round" /\ call'.ret = "done")
            => call.op = "generate_response" /\ call.team = POLICE
       /\ (LadderJustGrantedToFire /\ AsksForLadder(MEDICAL))
            => game_state'.resource_allocation = game_state.resource_allocation
      ]_vars

\* the last two messages of the log are the fire team's and the medical
\* team's requests for the ladder, made in the same tick: the ladder is the
\* fire team's, at floor 3, with its whole duration ahead
C30_Witness ==
    /\ call.op = "generate_response"
    /\ call.team = MEDICAL
    /\ call.ret = "message"
    /\ Len(game_state.messages) >= 2
    /\ LET n == Len(game_state.messages)
       IN  /\ game_state.messages[n - 1].team = FIRE
           /\ RequestedResource(game_state.messages[n - 1]) = LADDER
           /\ game_state.messages[n].team = MEDICAL
           /\ RequestedResource(game_state.messages[n]) = LADDER
    /\ game_state.resource_allocation.ladder_owner = FIRE
    /\ game_state.resource_allocation.ladder_location = FLOOR_3
    /\ game_state.resource_allocation.ladder_eta = SomeInt(DefaultDuration)

-----------------------------------------------------------------------------
(* Crisis events, requests and rescue passes of one game, with the scenario
   that random.choice drew kept in the record of the call *)

MaxTicksConserve == 3
ConserveLocations == {FLOOR_4, LOBBY, EXTERIOR}

InitConserve ==
    /\ game_state = initialize_game
    /\ next_crisis_time = InitialNextCrisisTime
    /\ call = Call("initialize_game", None, None, None)
    /\ ManagerIdle
    /\ LimiterIdle

ConserveRequest ==
    \/ ProcessResourceRequest({FIRE}, {LADDER}, ConserveLocations,
                              {DefaultDuration})
    \/ ProcessResourceRequest({MEDICAL}, {AMBULANCE_1, AMBULANCE_2},
                              ConserveLocations, {DefaultDuration})

ConserveUpdate ==
    \E elapsed_time \in ElapsedAfter(game_state.crisis_state.time_elapsed,
                                     FALSE, MaxTicksConserve) :
      \E e \in EventDraws(elapsed_time) :
        \E pick \in PickDraws(elapsed_time, e) :
          LET r == update_crisis_state(game_state, next_crisis_time,
                                       elapsed_time, crisis_scenarios[e], pick)
              drawn == IF elapsed_time >= next_crisis_time
                       THEN crisis_scenarios[e] ELSE None
          IN  /\ game_state' = r.gs
              /\ next_crisis_time' = r.next_crisis_time
              /\ call' = Call("update_crisis_state", None, drawn, None)
              /\ UNCHANGED <<managerVars, limiterVars>>

NextConserve == ConserveRequest \/ ConserveUpdate \/ ProcessRescueOperations

SpecConserve == InitConserve /\ [][NextConserve]_vars

\* the victims still in the building
VictimsLeft(gs) ==
    SumSeq([i \in 1..Len(gs.crisis_state.victim_locations) |->
                gs.crisis_state.victim_locations[i].v])
\* the victims the teams are credited with
VictimsSaved(gs) == Saved(gs, FIRE) + Saved(gs, MEDICAL) + Saved(gs, POLICE)
\* the lives saved that the events of the successful rescues record
LivesSavedLogged(gs) ==
    SumSeq([i \in 1..Len(gs.coordination_events) |->
                IF gs.coordination_events[i].event_type = "SUCCESSFUL_RESCUE"
                THEN gs.coordination_events[i].lives_saved ELSE 0])
\* the victims the step added: one when it is an update_crisis_state call
\* whose scripted event is a victim found, none otherwise
VictimsAdded ==
    IF call'.op = "update_crisis_state" /\ call'.resource = crisis_scenarios[2]
    THEN 1 ELSE 0

\* C31: victims are conserved. A game starts with 6 victims and none saved;
\* every step leaves the sum of the victims saved over the teams and of the
\* victims left in the building as it was, but for a victim-found event,
\* which adds one; and the lives saved that the events of the successful
\* rescues record add up to the victims saved.
C31_VictimConservation ==
    /\ (VictimsLeft(game_state) = 6 /\ VictimsSaved(game_state) = 0)
    /\ [][VictimsSaved(game_state') + VictimsLeft(game_state')
            = VictimsSaved(game_state) + VictimsLeft(game_state) + VictimsAdded
         ]_vars
    /\ [](LivesSavedLogged(game_state) = VictimsSaved(game_state))

\* a victim was found on floor 4, and one rescue pass has since saved the
\* two victims of floor 4, one credited to each of the two teams, and two
\* of the lobby: three victims are left of the seven
C31_Witness ==
    /\ call.op = "process_rescue_operations"
    /\ Saved(game_state, FIRE) = 1
    /\ Saved(game_state, MEDICAL) = 3
    /\ VictimsLeft(game_state) = 3
    /\ Len(game_state.crisis_state.crisis_events) = 1

-----------------------------------------------------------------------------
(* The leases of the resources across the ticks of SpecTick *)

\* no resource has an owner
AllFree(gs) == \A r \in Allocatable : OwnerOf(gs.resource_allocation, r) = None

\* C32: a lease granted to a message lasts 5 and an update counts 10 down, so
\* the first update_crisis_state call after a grant releases the resource:
\* after every update, and so at the start of every agent round, the ladder
\* and the two ambulances have no owner.
C32_NoLeaseSurvivesATick ==
    /\ call.op = "update_crisis_state" => AllFree(game_state)
    /\ (pc[1] = "_process_agent_round" /\ round_pos \in {0, 1}
            /\ call.op # "generate_response")
        => AllFree(game_state)

\* the update of a later tick has just released the ladder and ambulance 1
\* that the round of the tick before had granted: their countdowns are at 0
C32_Witness ==
    /\ call.op = "update_crisis_state"
    /\ Len(game_state.messages) >= 2
    /\ game_state.resource_allocation.ladder_owner = None
    /\ game_state.resource_allocation.ladder_eta = SomeInt(0)
    /\ game_state.resource_allocation.ambulance_1_owner = None
    /\ game_state.resource_allocation.ambulance_1_eta = SomeInt(0)

-----------------------------------------------------------------------------
(* The message log and the transmission counters, on the rounds of SpecText *)

\* the number of the log's messages that are a team's
LoggedBy(gs, team) ==
    Len(SelectSeq(gs.messages, LAMBDA message : message.team = team))
\* the transmissions the teams have used
TransmissionsCounted(gs) ==
    gs.team_statuses[FIRE].transmissions_used
        + gs.team_statuses[MEDICAL].transmissions_used
        + gs.team_statuses[POLICE].transmissions_used

\* C33: at the end of every round the message log is as long as the sum of
\* the transmissions used by the teams: every step adds to a team's counter
\* the number of messages of that team that it appends to the log, one at
\* most, and nothing otherwise.
C33_LogLengthIsTransmissions ==
    /\ [](round_pos = 0
            => Len(game_state.messages) = TransmissionsCounted(game_state))
    /\ [][\A team \in Teams :
            LET counted == game_state'.team_statuses[team].transmissions_used
                            - game_state.team_statuses[team].transmissions_used
            IN  /\ counted = LoggedBy(game_state', team)
                                - LoggedBy(game_state, team)
                /\ counted \in {0, 1}
         ]_vars

\* a round has ended in which the text of the medical team gave no message
\* and the two other teams sent a message each: two messages, two
\* transmissions
C33_Witness ==
    /\ round_pos = 0
    /\ call.op = "generate_response"
    /\ Len(game_state.messages) = 2
    /\ game_state.team_statuses[FIRE].transmissions_used = 1
    /\ game_state.team_statuses[MEDICAL].transmissions_used = 0
    /\ game_state.team_statuses[POLICE].transmissions_used = 1

\* C34: no operation changes the status of the evacuation route: in every
\* state of a game started by initialize_game it is "BLOCKED", the
\* precondition of a rescue at the exterior does not hold, and the police
\* team has evacuated nobody.
C34_EvacRouteStaysBlocked ==
    /\ game_state.resource_allocation.evac_route_status = "BLOCKED"
    /\ ~can_rescue_at_location(game_state, EXTERIOR)
    /\ game_state.team_statuses[POLICE].people_evacuated = 0

\* a rescue pass has run with an ambulance at the exterior, after a crisis
\* event: the route is blocked and nobody is evacuated
C34_Witness ==
    /\ call.op = "process_rescue_operations"
    /\ game_state.resource_allocation.ambulance_1_location = EXTERIOR
    /\ game_state.resource_allocation.ambulance_1_owner = MEDICAL
    /\ Len(game_state.crisis_state.crisis_events) = 1
    /\ game_state.resource_allocation.evac_route_status = "BLOCKED"
    /\ game_state.team_statuses[POLICE].people_evacuated = 0

-----------------------------------------------------------------------------
(* The elapsed time of a running game: the time check of the loop and the
   update_crisis_state call that follows it *)

MaxTicksDuration == 14

InitDuration ==
    /\ game_state = initialize_game
    /\ next_crisis_time = InitialNextCrisisTime
    /\ call = Call("initialize_game", None, None, None)
    /\ recent_messages = <<>>
    /\ running = TRUE
    /\ shutdown_event = FALSE
    /\ pc = [c \in StartGames |-> IF c = 1 THEN "update_crisis_state" ELSE "idle"]
    /\ round_pos = 0
    /\ now = 0
    /\ start_time = [c \in StartGames |-> 0]
    /\ end_log = <<>>
    /\ LimiterIdle

\* lines 60-75: the loop goes on while the elapsed time is under the
\* manager's game_duration, and passes it to update_crisis_state
DurationUpdate ==
    /\ running /\ ~shutdown_event
    /\ LET last == game_state.crisis_state.time_elapsed
       IN  UpdateCrisisState(
             {e \in ElapsedAfter(last, call.op = "initialize_game",
                                 MaxTicksDuration) :
                e <= last + MaxTickGap /\ e < game_duration})

NextDuration == DurationUpdate

SpecDuration == InitDuration /\ [][NextDuration]_vars

\* the time remaining that _get_team_perspective shows to a team's policy
time_remaining(gs) == gs.game_duration - gs.crisis_state.time_elapsed

-----------------------------------------------------------------------------
(* Two games, one after the other, on one manager and its one engine *)

MaxTicksRestart == 5

\* the first start_game call has reached its loop
InitRestart ==
    /\ game_state = initialize_game
    /\ next_crisis_time = InitialNextCrisisTime
    /\ call = Call("START_GAME", None, None, None)
    /\ recent_messages = <<>>
    /\ running = TRUE
    /\ shutdown_event = FALSE
    /\ pc = [c \in StartGames |-> IF c = 1 THEN "update_crisis_state" ELSE "idle"]
    /\ round_pos = 0
    /\ now = 0
    /\ start_time = [c \in StartGames |-> 0]
    /\ end_log = <<>>
    /\ LimiterIdle

\* line 75, in the game of the start_game call c
RestartUpdate(c) ==
    /\ pc[c] = "update_crisis_state"
    /\ UpdateCrisisState(ElapsedAfter(game_state.crisis_state.time_elapsed,
                                      call.op = "START_GAME", MaxTicksRestart))

\* the game of the first call ends
RestartEnd ==
    /\ pc[1] = "update_crisis_state"
    /\ running' = FALSE
    /\ end_log' = end_game(end_log, game_state, "Game ended")
    /\ pc' = [pc EXCEPT ![1] = "idle"]
    /\ call' = Call("start_game", None, None, "finally")
    /\ UNCHANGED <<game_state, next_crisis_time, recent_messages,
                   shutdown_event, round_pos, now, start_time, limiterVars>>

\* a second start_game call, lines 30-56: a new GameState from the engine
\* that served the first game
RestartStart ==
    /\ pc[1] = "idle" /\ pc[MaxStartGames] = "idle"
    /\ ~running
    /\ game_state' = initialize_game
    /\ end_log' = <<>>
    /\ running' = TRUE
    /\ pc' = [pc EXCEPT ![MaxStartGames] = "update_crisis_state"]
    /\ call' = Call("START_GAME", None, None, None)
    /\ UNCHANGED <<next_crisis_time, recent_messages, shutdown_event,
                   round_pos, now, start_time, limiterVars>>

NextRestart ==
    \/ \E c \in StartGames : RestartUpdate(c)
    \/ RestartEnd
    \/ RestartStart

SpecRestart == InitRestart /\ [][NextRestart]_vars

-----------------------------------------------------------------------------
(* Rounds in which the teams ask for ambulances *)

AmbulanceResponses(team) ==
    CASE team = FIRE -> {<<"A", "M", "B", "2", "→", "F", "1", "?">>,
                         <<"A", "M", "B", "2", "→", "F", "2", "?">>}
      [] team = MEDICAL -> {<<"A", "M", "B", "→", "L", "B", " ", "F", "1", "?">>}
      [] team = POLICE -> {<<"a", "m", "b", "2", "→", "f", "1", "?">>}

InitAmbulance == InitText

ProcessAgentAmbulance ==
    AgentTurn([team \in Teams |-> AmbulanceResponses(team)])

NextAmbulance == BeginRound \/ ProcessAgentAmbulance

SpecAmbulance == InitAmbulance /\ [][NextAmbulance]_vars

\* the step is the turn of a team that emits a request for an ambulance
AmbulanceRequest ==
    /\ Turn
    /\ Len(game_state'.messages) = Len(game_state.messages) + 1
    /\ Emitted.message_type = "RESOURCE_REQUEST"
    /\ In(<<"A", "M", "B">>, upper(Emitted.content))
    /\ ~In(<<"L", "→">>, upper(Emitted.content))
    /\ ~In(<<"L", "A", "D", "D", "E", "R">>, upper(Emitted.content))
\* the fields of the allocation that belong to an ambulance
Ambulance1(gs) ==
    <<gs.resource_allocation.ambulance_1_owner,
      gs.resource_allocation.ambulance_1_location,
      gs.resource_allocation.ambulance_1_eta>>
Ambulance2(gs) ==
    <<gs.resource_allocation.ambulance_2_owner,
      gs.resource_allocation.ambulance_2_location,
      gs.resource_allocation.ambulance_2_eta>>

\* C37: a message that asks for an ambulance asks for ambulance 1 when its
\* content holds the character "1" and for ambulance 2 otherwise, at the
\* first location code it holds in the order F1, F2, ...; so ambulance 2 is
\* never at floor 1, and a request whose content holds "F1" is a request
\* for ambulance 1 at floor 1: granted there when ambulance 1 is free,
\* denied otherwise, ambulance 2 being left alone.
C37_AmbulanceNumberAndLocation ==
    /\ [](game_state.resource_allocation.ambulance_2_location # FLOOR_1)
    /\ [][AmbulanceRequest =>
            LET content == upper(Emitted.content)
            IN  /\ In(<<"1">>, content)
                        => Ambulance2(game_state') = Ambulance2(game_state)
                /\ ~In(<<"1">>, content)
                        => Ambulance1(game_state') = Ambulance1(game_state)
                /\ In(<<"F", "1">>, content) =>
                      Ambulance1(game_state') =
                        IF game_state.resource_allocation.ambulance_1_owner = None
                        THEN <<call'.team, FLOOR_1, SomeInt(DefaultDuration)>>
                        ELSE Ambulance1(game_state)
         ]_vars

\* the medical team's message AMB→LB F1? has been granted ambulance 1 at
\* floor 1, after the fire team's AMB2→F2? was granted ambulance 2 at floor 2
C37_Witness ==
    /\ call.op = "generate_response"
    /\ call.team = MEDICAL
    /\ call.ret = "message"
    /\ game_state.messages[Len(game_state.messages)].content
            = <<"A", "M", "B", "→", "L", "B", " ", "F", "1", "?">>
    /\ Ambulance1(game_state) = <<MEDICAL, FLOOR_1, SomeInt(DefaultDuration)>>
    /\ Ambulance2(game_state) = <<FIRE, FLOOR_2, SomeInt(DefaultDuration)>>

-----------------------------------------------------------------------------
(* rate_limited_slack_agent.py: RateLimitedSlackAgent.generate_response,
   any number of calls at once *)

MAX_CONCURRENT_REQUESTS_Four == 3 + 1
MAX_CONCURRENT_REQUESTS == 3
max_retries == 3
BusyReply == "I'm a bit busy right now. Please try again in a moment."
NoChoicesReply == "Sorry, I couldn't generate a response."
ErrorReply == "Sorry, there was an error generating a response."
Content == "content"

InitLimiter ==
    /\ game_state = NoGameState
    /\ next_crisis_time = InitialNextCrisisTime
    /\ call = Call("__init__", None, None, None)
    /\ ManagerIdle
    /\ LimiterIdle

\* lines 112-116: the check of the limit, and the count of the call
LimiterEnter(r) ==
    /\ request_pc[r].at = "idle"
    /\ IF active_requests >= MAX_CONCURRENT_REQUESTS
       THEN /\ call' = Call("slack.generate_response", None, None, BusyReply)
            /\ UNCHANGED limiterVars
       ELSE /\ active_requests' = active_requests + 1
            /\ request_pc' = [request_pc EXCEPT ![r] =
                                [at |-> "post", attempt |-> 0, ret |-> None]]
            /\ UNCHANGED call
    /\ UNCHANGED <<game_state, next_crisis_time, managerVars>>

\* lines 122-164: one attempt; a return leaves through the finally clause
LimiterAttempt(r) ==
    /\ request_pc[r].at = "post"
    /\ \E outcome \in {Content, NoChoicesReply, "RequestException", "Exception"} :
          LET attempt == request_pc[r].attempt
              returns(ret) == [at |-> "finally", attempt |-> attempt, ret |-> ret]
          IN  request_pc' = [request_pc EXCEPT ![r] =
                IF outcome = "RequestException"
                THEN IF attempt < max_retries - 1
                     THEN [at |-> "sleep", attempt |-> attempt, ret |-> None]
                     ELSE returns(ErrorReply)
                ELSE IF outcome = "Exception" THEN returns(ErrorReply)
                ELSE returns(outcome)]
    /\ UNCHANGED <<game_state, next_crisis_time, call, managerVars,
                   active_requests>>

\* line 159: the sleep before the next attempt is over
LimiterRetry(r) ==
    /\ request_pc[r].at = "sleep"
    /\ request_pc' = [request_pc EXCEPT ![r] =
                        [at |-> "post", attempt |-> @.attempt + 1, ret |-> None]]
    /\ UNCHANGED <<game_state, next_crisis_time, call, managerVars,
                   active_requests>>

\* line 159: the task is cancelled in its sleep; CancelledError is caught by
\* neither except clause
LimiterCancelled(r) ==
    /\ request_pc[r].at = "sleep"
    /\ request_pc' = [request_pc EXCEPT ![r] =
                        [at |-> "finally", attempt |-> @.attempt,
                         ret |-> "CancelledError"]]
    /\ UNCHANGED <<game_state, next_crisis_time, call, managerVars,
                   active_requests>>

\* lines 165-167: the finally clause
LimiterFinally(r) ==
    /\ request_pc[r].at = "finally"
    /\ active_requests' = active_requests - 1
    /\ request_pc' = [request_pc EXCEPT ![r] = RequestIdle]
    /\ call' = Call("slack.generate_response", None, None, request_pc[r].ret)
    /\ UNCHANGED <<game_state, next_crisis_time, managerVars>>

NextLimiter ==
    \E r \in Requests :
        \/ LimiterEnter(r)
        \/ LimiterAttempt(r)
        \/ LimiterRetry(r)
        \/ LimiterCancelled(r)
        \/ LimiterFinally(r)

SpecLimiter == InitLimiter /\ [][NextLimiter]_vars

\* the calls that have counted themselves and not yet left
InFlight == {r \in Requests : request_pc[r].at # "idle"}
\* the step completes a call with the busy reply
ReturnsBusy ==
    /\ call' # call
    /\ call'.op = "slack.generate_response"
    /\ call'.ret = BusyReply

\* a step that raises active_requests raises it by one, from under 3
CountedUp ==
    (active_requests' > active_requests)
        => (active_requests < 3 /\ active_requests' = active_requests + 1)
\* a step that lowers active_requests lowers it by one, and is the finally
\* clause of one call
CountedDown ==
    (active_requests' < active_requests)
        => (/\ active_requests' = active_requests - 1
            /\ \E r \in Requests :
                    /\ request_pc[r].at = "finally"
                    /\ request_pc'[r] = RequestIdle
                    /\ \A other \in Requests \ {r} :
                            request_pc'[other] = request_pc[other])

\* C38: active_requests stays within 0..3 whatever the interleaving of the
\* generate_response calls; it is the number of calls that have counted
\* themselves and not yet left, so 0 when no call is in flight; a call that
\* arrives when it is 3 returns the busy reply and leaves it alone; it goes
\* up by one, from under 3, and comes down by one, when a call leaves by
\* its finally clause, on any path.
C38_ActiveRequestsBounded ==
    /\ [](active_requests \in 0..3)
    /\ [](active_requests = Cardinality(InFlight))
    /\ [][ReturnsBusy =>
            (active_requests = 3 /\ UNCHANGED <<active_requests, request_pc>>)
         ]_vars
    /\ [][CountedUp /\ CountedDown]_vars

\* a fourth call has got the busy reply while three calls are in flight:
\* one at its third attempt, one asleep between attempts, one cancelled in
\* its sleep and about to leave
C38_Witness ==
    /\ call.op = "slack.generate_response"
    /\ call.ret = BusyReply
    /\ active_requests = 3
    /\ \E r \in Requests :
            request_pc[r].at = "post" /\ request_pc[r].attempt = max_retries - 1
    /\ \E r \in Requests : request_pc[r].at = "sleep"
    /\ \E r \in Requests :
            request_pc[r].at = "finally" /\ request_pc[r].ret = "CancelledError"

====
